---- MODULE Spec2Model ----
(***************************************************************************)
(* Net-worth store (context/NetWorthContext: reducer and the asynchronous  *)
(* operations around it) and the trend chart's series computation          *)
(* (components/NetWorthTrendChart).                                        *)
(*                                                                         *)
(* Representation.                                                         *)
(*  - A date string is represented by the instant it denotes, counted in   *)
(*    ticks; TicksPerDay ticks make one calendar day.  Every date string   *)
(*    of the program comes from Date.toISOString(), so two strings are     *)
(*    equal exactly when their instants are.                               *)
(*  - Amounts are integers in units of 0.001 currency units.               *)
(*  - null is the record Null.                                             *)
(***************************************************************************)
EXTENDS Integers, Sequences, FiniteSets, TLC

\* ------------------------------------------------------------------ bounds
MaxTime == 2
TicksPerDay == 2
MaxOps == 3
MaxAggregateAccounts == 2
MaxChartSnapshots == 2

Dates == 0..MaxTime
Balances == {5, 1000}
AccountTypes == {"savings", "liability"}
Years == {2020, 2021}
NetWorths == {5, 1000}
GoalAmounts == {1000}

\* `< 0.01` in createAndSaveSnapshot, in units of 0.001
MaterialityThreshold == 10

Null == [null |-> TRUE]

\* ------------------------------------------------------------ JS helpers
Abs(x) == IF x < 0 THEN -x ELSE x

\* const x = value; Body(x): the value is computed once
With(value, Body(_)) == CHOOSE result \in {Body(x) : x \in {value}} : TRUE

\* Insertion keeping the order of equal keys: e goes behind every element
\* whose date is not later than its own.
RECURSIVE InsertAscending(_, _)
InsertAscending(sorted, e) ==
  IF sorted = <<>> THEN <<e>>
  ELSE IF Head(sorted).date <= e.date
       THEN With(InsertAscending(Tail(sorted), e),
                 LAMBDA rest : <<Head(sorted)>> \o rest)
       ELSE <<e>> \o sorted

RECURSIVE InsertDescending(_, _)
InsertDescending(sorted, e) ==
  IF sorted = <<>> THEN <<e>>
  ELSE IF Head(sorted).date >= e.date
       THEN With(InsertDescending(Tail(sorted), e),
                 LAMBDA rest : <<Head(sorted)>> \o rest)
       ELSE <<e>> \o sorted

\* [...s].sort((a, b) => time(a.date) - time(b.date)): Array.prototype.sort
\* is stable.
RECURSIVE SortAscending(_)
SortAscending(s) ==
  IF s = <<>> THEN <<>>
  ELSE With(SortAscending(SubSeq(s, 1, Len(s) - 1)),
            LAMBDA sorted : InsertAscending(sorted, s[Len(s)]))

\* [...s].sort((a, b) => time(b.date) - time(a.date))
RECURSIVE SortDescending(_)
SortDescending(s) ==
  IF s = <<>> THEN <<>>
  ELSE With(SortDescending(SubSeq(s, 1, Len(s) - 1)),
            LAMBDA sorted : InsertDescending(sorted, s[Len(s)]))

\* ------------------------------------------------- balance history model
getLatestBalanceEntry(account) ==
  IF Len(account.balanceHistory) = 0 THEN Null
  ELSE Head(SortDescending(account.balanceHistory))

getCurrentBalance(account) ==
  LET latestEntry == getLatestBalanceEntry(account)
  IN IF latestEntry = Null THEN 0 ELSE latestEntry.balance

\* ------------------------------------------------------------ aggregator
\* a fold without the else: a liability is counted in the assets as well
RECURSIVE ReduceTotalsCountingAll(_, _)
ReduceTotalsCountingAll(acc, accs) ==
  IF accs = <<>> THEN acc
  ELSE LET account == Head(accs)
           currentBalance == getCurrentBalance(account)
       IN IF account.type = "liability"
          THEN ReduceTotalsCountingAll(
                 [acc EXCEPT !.totalLiabilities = @ + currentBalance,
                             !.totalAssets = @ + currentBalance],
                 Tail(accs))
          ELSE ReduceTotalsCountingAll(
                 [acc EXCEPT !.totalAssets = @ + currentBalance], Tail(accs))

\* accounts.reduce(...) from { totalAssets: 0, totalLiabilities: 0 }
RECURSIVE ReduceTotals(_, _)
ReduceTotals(acc, accs) ==
  IF accs = <<>> THEN acc
  ELSE LET account == Head(accs)
           currentBalance == getCurrentBalance(account)
       IN IF account.type = "liability"
          THEN ReduceTotals([acc EXCEPT !.totalLiabilities = @ + currentBalance],
                            Tail(accs))
          ELSE ReduceTotals([acc EXCEPT !.totalAssets = @ + currentBalance],
                            Tail(accs))

calculateNetWorth(accs) ==
  LET totals == ReduceTotals([totalAssets |-> 0, totalLiabilities |-> 0], accs)
  IN [totalAssets |-> totals.totalAssets,
      totalLiabilities |-> totals.totalLiabilities,
      netWorth |-> totals.totalAssets - totals.totalLiabilities]

\* --------------------------------------------------------------- reducer
ADD_ACCOUNT(accs, payload) ==
  IF \E i \in 1..Len(accs) : accs[i].id = payload.id
  THEN accs
  ELSE Append(accs, payload)

UPDATE_ACCOUNT_METADATA(accs, payload) ==
  [i \in 1..Len(accs) |-> IF accs[i].id = payload.id THEN payload ELSE accs[i]]

ADD_BALANCE_ENTRY(accs, accountId, balance, date) ==
  [i \in 1..Len(accs) |->
     IF accs[i].id = accountId
     THEN LET newHistory == [date |-> date, balance |-> balance]
              updatedHistory ==
                SortAscending(Append(accs[i].balanceHistory, newHistory))
          IN [accs[i] EXCEPT !.balanceHistory = updatedHistory]
     ELSE accs[i]]

DELETE_ACCOUNT(accs, accountId) ==
  SelectSeq(accs, LAMBDA account : account.id # accountId)

\* an ADD_SNAPSHOT that brings the totals of the earlier snapshots up to date
ADD_SNAPSHOTRefreshingAll(accs, snaps, date, uuid) ==
  LET currentTotals == calculateNetWorth(accs)
      snapshotAccounts ==
        [i \in 1..Len(accs) |->
           [id |-> accs[i].id, balance |-> getCurrentBalance(accs[i])]]
      newSnapshot == [id |-> uuid,
                      date |-> date,
                      totalAssets |-> currentTotals.totalAssets,
                      totalLiabilities |-> currentTotals.totalLiabilities,
                      netWorth |-> currentTotals.netWorth,
                      accounts |-> snapshotAccounts]
      refreshed == [k \in 1..Len(snaps) |->
                      [snaps[k] EXCEPT !.totalAssets = currentTotals.totalAssets,
                                       !.totalLiabilities = currentTotals.totalLiabilities,
                                       !.netWorth = currentTotals.netWorth]]
  IN IF Len(accs) = 0 THEN snaps ELSE Append(refreshed, newSnapshot)

\* an ADD_SNAPSHOT without the guard against an empty account list
ADD_SNAPSHOTUnguarded(accs, snaps, date, uuid) ==
  LET currentTotals == calculateNetWorth(accs)
      snapshotAccounts ==
        [i \in 1..Len(accs) |->
           [id |-> accs[i].id, balance |-> getCurrentBalance(accs[i])]]
      newSnapshot == [id |-> uuid,
                      date |-> date,
                      totalAssets |-> currentTotals.totalAssets,
                      totalLiabilities |-> currentTotals.totalLiabilities,
                      netWorth |-> currentTotals.netWorth,
                      accounts |-> snapshotAccounts]
  IN Append(snaps, newSnapshot)

\* The payload's totals are ignored: the reducer recomputes them from
\* state.accounts and draws a fresh uuid for the id.
ADD_SNAPSHOT(accs, snaps, date, uuid) ==
  LET currentTotals == calculateNetWorth(accs)
      snapshotAccounts ==
        [i \in 1..Len(accs) |->
           [id |-> accs[i].id, balance |-> getCurrentBalance(accs[i])]]
      newSnapshot == [id |-> uuid,
                      date |-> date,
                      totalAssets |-> currentTotals.totalAssets,
                      totalLiabilities |-> currentTotals.totalLiabilities,
                      netWorth |-> currentTotals.netWorth,
                      accounts |-> snapshotAccounts]
  IN IF Len(accs) = 0 THEN snaps ELSE Append(snaps, newSnapshot)

\* sort((a, b) => a.year - b.year), stable
RECURSIVE InsertByYear(_, _)
InsertByYear(sorted, e) ==
  IF sorted = <<>> THEN <<e>>
  ELSE IF Head(sorted).year <= e.year
       THEN <<Head(sorted)>> \o InsertByYear(Tail(sorted), e)
       ELSE <<e>> \o sorted

\* an upsert without the findIndex: the payload is always added
UPSERT_HISTORICAL_DATAAppending(hd, payload) ==
  InsertByYear(hd, payload)

UPSERT_HISTORICAL_DATA(hd, payload) ==
  IF \E i \in 1..Len(hd) : hd[i].year = payload.year
  THEN LET existingIndex ==
             CHOOSE i \in 1..Len(hd) :
               /\ hd[i].year = payload.year
               /\ \A j \in 1..(i - 1) : hd[j].year # payload.year
       IN [i \in 1..Len(hd) |-> IF i = existingIndex THEN payload ELSE hd[i]]
  ELSE InsertByYear(hd, payload)

DELETE_HISTORICAL_DATA(hd, year) ==
  SelectSeq(hd, LAMBDA item : item.year # year)

\* -------------------------------------------------------------- calendar
\* The Date object in the local time zone, which the model takes to be UTC.
\* A calendar date is [y, m, d] with m in 1..12; days are counted from
\* 1970-01-01 = 0.
DaysFromCivil(y, m, d) ==
  With(IF m <= 2 THEN y - 1 ELSE y, LAMBDA yy :
  With(yy \div 400, LAMBDA era :
  With(yy - era * 400, LAMBDA yoe :
  With(IF m > 2 THEN m - 3 ELSE m + 9, LAMBDA mp :
  With((153 * mp + 2) \div 5 + d - 1, LAMBDA doy :
  With(yoe * 365 + yoe \div 4 - yoe \div 100 + doy, LAMBDA doe :
    era * 146097 + doe - 719468))))))

CivilFromDays(day) ==
  With(day + 719468, LAMBDA z :
  With(z \div 146097, LAMBDA era :
  With(z - era * 146097, LAMBDA doe :
  With((doe - doe \div 1460 + doe \div 36524 - doe \div 146096) \div 365,
       LAMBDA yoe :
  With(doe - (365 * yoe + yoe \div 4 - yoe \div 100), LAMBDA doy :
  With((5 * doy + 2) \div 153, LAMBDA mp :
  With(IF mp < 10 THEN mp + 3 ELSE mp - 9, LAMBDA m :
    [y |-> yoe + era * 400 + (IF m <= 2 THEN 1 ELSE 0),
     m |-> m,
     d |-> doy - (153 * mp + 2) \div 5 + 1])))))))

\* an instant, in ticks: tick `tick` of the day y-m-d
Instant(y, m, d, tick) == DaysFromCivil(y, m, d) * TicksPerDay + tick

DayOf(instant) == instant \div TicksPerDay
TimeOfDay(instant) == instant % TicksPerDay

\* Date.getDay(): 0 is Sunday; 1970-01-01 was a Thursday
GetDay(instant) == (DayOf(instant) + 4) % 7
\* Date.getDate()
GetDate(instant) == CivilFromDays(DayOf(instant)).d

\* Date.setDate(n): day n of the date's month, n outside the month rolling
\* over into the neighbouring months; the time of day is kept
SetDate(instant, n) ==
  With(CivilFromDays(DayOf(instant)), LAMBDA c :
    (DaysFromCivil(c.y, c.m, 1) + n - 1) * TicksPerDay + TimeOfDay(instant))

\* format(date, 'yyyy-MM-dd')
FormatYmd(instant) == CivilFromDays(DayOf(instant))
\* format(date, 'yyyy-MM')
FormatYm(instant) ==
  With(CivilFromDays(DayOf(instant)), LAMBDA c : [y |-> c.y, m |-> c.m])
\* parseISO('yyyy-MM-dd'): local midnight of that day
ParseYmd(ymd) == DaysFromCivil(ymd.y, ymd.m, ymd.d) * TicksPerDay

DaysInMonth(y, m) ==
  IF m = 12 THEN 31 ELSE DaysFromCivil(y, m + 1, 1) - DaysFromCivil(y, m, 1)

\* date-fns subMonths(date, amount): the same day of the month `amount`
\* months earlier, or that month's last day when it is shorter; the time of
\* day is kept
SubMonths(instant, amount) ==
  With(CivilFromDays(DayOf(instant)), LAMBDA c :
  With(c.y * 12 + (c.m - 1) - amount, LAMBDA months :
  With(months \div 12, LAMBDA y :
  With((months % 12) + 1, LAMBDA m :
  With(DaysInMonth(y, m), LAMBDA lastDay :
  With(IF c.d >= lastDay THEN lastDay ELSE c.d, LAMBDA d :
    DaysFromCivil(y, m, d) * TicksPerDay + TimeOfDay(instant)))))))

\* date-fns subYears(date, amount)
SubYears(instant, amount) == SubMonths(instant, amount * 12)

\* formatISO(endOfYear(new Date(year, 0, 1))), read back by parseISO:
\* 23:59:59 of December 31
EndOfYear(year) == Instant(year, 12, 31, TicksPerDay - 1)

\* ------------------------------------------------------- chart arithmetic
\* A number of the chart is the fraction num / den in lowest terms, den > 0.
RECURSIVE Gcd(_, _)
Gcd(a, b) == IF b = 0 THEN a ELSE Gcd(b, a % b)

Fraction(num, den) ==
  LET g == Gcd(Abs(num), den)
  IN IF num = 0 THEN [num |-> 0, den |-> 1]
     ELSE [num |-> num \div g, den |-> den \div g]

Number(n) == Fraction(n, 1)

\* ------------------------------------------------- NetWorthTrendChart
TimeFrames == {"1M", "3M", "6M", "1Y", "ALL"}

\* reduce((earliest, x) => x < earliest ? x : earliest, first)
RECURSIVE Earliest(_, _)
Earliest(earliest, xs) ==
  IF xs = <<>> THEN earliest
  ELSE With(IF Head(xs) < earliest THEN Head(xs) ELSE earliest,
            LAMBDA next : Earliest(next, Tail(xs)))

\* the window start of a time frame
StartDate(snaps, hist, tf, today) ==
  CASE tf = "1M" -> SubMonths(today, 1)
    [] tf = "3M" -> SubMonths(today, 3)
    [] tf = "6M" -> SubMonths(today, 6)
    [] tf = "1Y" -> SubYears(today, 1)
    [] OTHER ->
         With(IF Len(snaps) > 0
              THEN Earliest(snaps[1].date, [k \in 1..Len(snaps) |-> snaps[k].date])
              ELSE today,
              LAMBDA earliestSnapshotDate :
         With(IF Len(hist) > 0
              THEN Instant(Earliest(hist[1].year,
                                    [k \in 1..Len(hist) |-> hist[k].year]), 1, 1, 0)
              ELSE today,
              LAMBDA earliestHistoricalDate :
           IF Len(snaps) = 0 /\ Len(hist) = 0
           THEN SubYears(today, 100)
           ELSE IF earliestSnapshotDate < earliestHistoricalDate
                THEN earliestSnapshotDate
                ELSE earliestHistoricalDate))

\* the key of the weekly bucket of a point: setDate(getDate() - getDay() + 1)
WeekKey(pointDate) ==
  With(SetDate(pointDate, GetDate(pointDate) - GetDay(pointDate) + 1),
       LAMBDA startOfWeek : FormatYmd(startOfWeek))

\* a bi-weekly key that keeps the year and the half but not the month
BiWeeklyKeyWithoutMonth(pointDate) ==
  With(GetDate(pointDate), LAMBDA dayOfMonth :
  With(IF dayOfMonth <= 14 THEN 1 ELSE 15, LAMBDA biWeeklyPeriod :
  With(CivilFromDays(DayOf(pointDate)), LAMBDA c :
    FormatYmd(Instant(c.y, 1, biWeeklyPeriod, 0)))))

\* the key of the bi-weekly bucket: the 1st or the 15th of the point's month
BiWeeklyKey(pointDate) ==
  With(GetDate(pointDate), LAMBDA dayOfMonth :
  With(IF dayOfMonth <= 14 THEN 1 ELSE 15, LAMBDA biWeeklyPeriod :
  With(CivilFromDays(DayOf(pointDate)), LAMBDA c :
    FormatYmd(Instant(c.y, c.m, biWeeklyPeriod, 0)))))

\* the key of the monthly bucket
MonthKey(pointDate) == FormatYm(pointDate)

\* format(parseISO(`${monthKey}-01`), 'yyyy-MM-dd')
MonthKeyDate(monthKey) ==
  FormatYmd(ParseYmd([y |-> monthKey.y, m |-> monthKey.m, d |-> 1]))

\* a Map whose entry is overwritten by each point instead of accumulated
RECURSIVE GroupByKeyOverwriting(_, _)
GroupByKeyOverwriting(dataMap, keyed) ==
  IF keyed = <<>> THEN dataMap
  ELSE With(Head(keyed), LAMBDA point :
       With(IF \E k \in 1..Len(dataMap) : dataMap[k].key = point.key
            THEN dataMap
            ELSE Append(dataMap, [key |-> point.key, sum |-> 0, count |-> 0]),
            LAMBDA withKey :
       With(CHOOSE j \in 1..Len(withKey) : withKey[j].key = point.key, LAMBDA k :
       With([withKey EXCEPT ![k].sum = point.value, ![k].count = 1],
            LAMBDA next : GroupByKeyOverwriting(next, Tail(keyed))))))

\* the Map filled by snapshotPoints.forEach: one entry per key, in the order
\* in which the keys first occur, with the sum and count of its points
RECURSIVE GroupByKey(_, _)
GroupByKey(dataMap, keyed) ==
  IF keyed = <<>> THEN dataMap
  ELSE With(Head(keyed), LAMBDA point :
       With(IF \E k \in 1..Len(dataMap) : dataMap[k].key = point.key
            THEN dataMap
            ELSE Append(dataMap, [key |-> point.key, sum |-> 0, count |-> 0]),
            LAMBDA withKey :
       With(CHOOSE j \in 1..Len(withKey) : withKey[j].key = point.key, LAMBDA k :
       With([withKey EXCEPT ![k].sum = @ + point.value, ![k].count = @ + 1],
            LAMBDA next : GroupByKey(next, Tail(keyed))))))

\* weeklyDataMap / biWeeklyDataMap / monthlyDataMap, then one chart point
\* per entry with value sum / count
Buckets(snapshotPoints, tf) ==
  With([k \in 1..Len(snapshotPoints) |->
          [key |-> CASE tf = "3M" -> WeekKey(snapshotPoints[k].date)
                     [] tf = "6M" -> BiWeeklyKey(snapshotPoints[k].date)
                     [] OTHER -> MonthKey(snapshotPoints[k].date),
           value |-> snapshotPoints[k].value]],
       LAMBDA keyed :
  With(GroupByKey(<<>>, keyed), LAMBDA dataMap :
    [k \in 1..Len(dataMap) |->
       [date |-> IF tf \in {"3M", "6M"} THEN dataMap[k].key
                 ELSE MonthKeyDate(dataMap[k].key),
        value |-> Fraction(dataMap[k].sum, dataMap[k].count),
        isHistorical |-> FALSE]]))

\* a 1M branch that keeps one point per day, the first of the day
IndividualPointsPerDay(snapshotPoints) ==
  With(SelectSeq([k \in 1..Len(snapshotPoints) |->
                    [point |-> snapshotPoints[k],
                     first |-> \A j \in 1..(k - 1) :
                                 FormatYmd(snapshotPoints[j].date)
                                   # FormatYmd(snapshotPoints[k].date)]],
                 LAMBDA x : x.first),
       LAMBDA firstOfDay :
    [k \in 1..Len(firstOfDay) |->
       [date |-> FormatYmd(firstOfDay[k].point.date),
        value |-> Number(firstOfDay[k].point.value),
        isHistorical |-> FALSE]])

\* for 1M every snapshot point is pushed as it is
IndividualPoints(snapshotPoints) ==
  [k \in 1..Len(snapshotPoints) |->
     [date |-> FormatYmd(snapshotPoints[k].date),
      value |-> Number(snapshotPoints[k].value),
      isHistorical |-> FALSE]]

\* finalChartPoints.sort by parseISO(date), stable
RECURSIVE InsertChartPoint(_, _)
InsertChartPoint(sorted, e) ==
  IF sorted = <<>> THEN <<e>>
  ELSE IF ParseYmd(Head(sorted).date) <= ParseYmd(e.date)
       THEN With(InsertChartPoint(Tail(sorted), e),
                 LAMBDA rest : <<Head(sorted)>> \o rest)
       ELSE <<e>> \o sorted

RECURSIVE SortChartPoints(_)
SortChartPoints(s) ==
  IF s = <<>> THEN <<>>
  ELSE With(SortChartPoints(SubSeq(s, 1, Len(s) - 1)),
            LAMBDA sorted : InsertChartPoint(sorted, s[Len(s)]))

\* a computation that sends the historical points through the buckets too
netWorthTrendDataBucketingAll(snaps, hist, tf, today) ==
  With(StartDate(snaps, hist, tf, today), LAMBDA startDate :
  With([k \in 1..Len(hist) |->
          [date |-> EndOfYear(hist[k].year), value |-> hist[k].net_worth,
           isHistorical |-> TRUE]],
       LAMBDA historicalPoints :
  With([k \in 1..Len(snaps) |->
          [date |-> snaps[k].date, value |-> snaps[k].netWorth,
           isHistorical |-> FALSE]],
       LAMBDA allSnapshotPoints :
  With(SortAscending(historicalPoints \o allSnapshotPoints), LAMBDA allPoints :
  With(SelectSeq(allPoints, LAMBDA pt : pt.date >= startDate),
       LAMBDA filteredPoints :
  With(IF tf = "1M" THEN IndividualPoints(filteredPoints)
       ELSE Buckets(filteredPoints, tf),
       LAMBDA finalChartPoints :
    IF Len(filteredPoints) = 0 THEN <<>>
    ELSE SortChartPoints(finalChartPoints)))))))

netWorthTrendData(snaps, hist, tf, today) ==
  With(StartDate(snaps, hist, tf, today), LAMBDA startDate :
  With([k \in 1..Len(hist) |->
          [date |-> EndOfYear(hist[k].year), value |-> hist[k].net_worth,
           isHistorical |-> TRUE]],
       LAMBDA historicalPoints :
  With([k \in 1..Len(snaps) |->
          [date |-> snaps[k].date, value |-> snaps[k].netWorth,
           isHistorical |-> FALSE]],
       LAMBDA allSnapshotPoints :
  With(SortAscending(historicalPoints \o allSnapshotPoints), LAMBDA allPoints :
  With(SelectSeq(allPoints, LAMBDA pt : pt.date >= startDate),
       LAMBDA filteredPoints :
  With(SelectSeq(filteredPoints, LAMBDA pt : pt.isHistorical), LAMBDA kept :
  With([k \in 1..Len(kept) |->
          [date |-> FormatYmd(kept[k].date), value |-> Number(kept[k].value),
           isHistorical |-> TRUE]],
       LAMBDA historicalOut :
  With(SelectSeq(filteredPoints, LAMBDA pt : ~pt.isHistorical),
       LAMBDA snapshotPoints :
  With(historicalOut \o (IF tf = "1M" THEN IndividualPoints(snapshotPoints)
                         ELSE Buckets(snapshotPoints, tf)),
       LAMBDA finalChartPoints :
    IF Len(filteredPoints) = 0 THEN <<>>
    ELSE SortChartPoints(finalChartPoints))))))))))

\* ------------------------------------------- NetWorthTrendChart performance
\* endValue - startValue on chart numbers
Minus(a, b) == Fraction(a.num * b.den - b.num * a.den, a.den * b.den)

\* a / b * 100 for b # 0
PercentOf(a, b) ==
  IF b.num > 0 THEN Fraction(a.num * b.den * 100, a.den * b.num)
  ELSE Fraction(-(a.num * b.den * 100), -(a.den * b.num))

\* a performance memo that treats a zero start as the account list does
PerformanceLikeAccounts(series) ==
  IF Len(series) < 2 THEN Null
  ELSE With(series[1], LAMBDA startData :
       With(series[Len(series)], LAMBDA endData :
       With(startData.value, LAMBDA startValue :
       With(endData.value, LAMBDA endValue :
       With(IF startValue = Number(0)
            THEN (IF endValue = Number(0) THEN Number(0) ELSE [infinity |-> TRUE])
            ELSE PercentOf(Minus(endValue, startValue), startValue),
            LAMBDA percentageChange :
         [totalReturn |-> Minus(endValue, startValue),
          percentageChange |-> percentageChange,
          startDate |-> startData.date,
          endDate |-> endData.date,
          startValue |-> startValue,
          endValue |-> endValue])))))

\* the performance memo: null for fewer than two points
Performance(series) ==
  IF Len(series) < 2 THEN Null
  ELSE With(series[1], LAMBDA startData :
       With(series[Len(series)], LAMBDA endData :
       With(startData.value, LAMBDA startValue :
       With(endData.value, LAMBDA endValue :
       With(IF startValue = Number(0) THEN Number(0)
            ELSE PercentOf(Minus(endValue, startValue), startValue),
            LAMBDA percentageChange :
         [totalReturn |-> Minus(endValue, startValue),
          percentageChange |-> percentageChange,
          startDate |-> startData.date,
          endDate |-> endData.date,
          startValue |-> startValue,
          endValue |-> endValue])))))

\* ------------------------------------------ AccountList accountPerformance
Infinity == [infinity |-> TRUE]

calculatePercentageChange(oldValue, newValue) ==
  IF oldValue = 0 /\ newValue = 0 THEN Number(0)
  ELSE IF oldValue = 0 THEN Infinity
  ELSE Fraction((newValue - oldValue) * 100, Abs(oldValue))

\* one entry per account with a history, in the order of the accounts
RECURSIVE AccountPerformance(_)
AccountPerformance(accs) ==
  IF accs = <<>> THEN <<>>
  ELSE With(Head(accs), LAMBDA account :
       With(AccountPerformance(Tail(accs)), LAMBDA rest :
         IF Len(account.balanceHistory) = 0 THEN rest
         ELSE With(SortAscending(account.balanceHistory), LAMBDA sortedHistory :
                IF Len(sortedHistory) < 2
                THEN <<[id |-> account.id, percentageChange |-> Number(0),
                        hasEnoughData |-> FALSE]>> \o rest
                ELSE <<[id |-> account.id,
                        percentageChange |->
                          calculatePercentageChange(
                            sortedHistory[1].balance,
                            sortedHistory[Len(sortedHistory)].balance),
                        hasEnoughData |-> TRUE]>> \o rest)))

\* ----------------------------------------------------------------- state
VARIABLES
  accounts,        \* state.accounts
  snapshots,       \* state.snapshots
  historicalData,  \* state.historicalData
  userGoal,        \* state.userGoal
  loading,         \* state.loading
  error,           \* state.error
  dbAccounts,      \* rows of the accounts table
  dbHistorical,    \* rows of the historical_data table
  dbGoal,          \* the user's row of user_goals, or Null
  dbSnapshots,     \* rows of the net_worth_snapshots table
  localSnapshots,  \* localStorage item snapshots_<user id>
  pending,         \* asynchronous operations awaiting the store, oldest first
  nextAccountId,   \* next primary key the accounts table hands out
  nextUuid,        \* next value of uuidv4()
  started,         \* number of operations started so far
  now,             \* new Date()
  effectPending,   \* AppContent's snapshot effect is due (its deps changed)
  lastEvent,       \* the handler step taken last
  timeFrame,       \* NetWorthTrendChart: the selected time frame
  chart,           \* NetWorthTrendChart: netWorthTrendData
  performance,     \* NetWorthTrendChart: performance
  accountPerformance,  \* AccountList: accountPerformance
  user,            \* useAuth().user: the signed-in user, or Null
  snapshotTableExists  \* whether the store has a net_worth_snapshots table

storeVars == <<accounts, snapshots, historicalData, userGoal, loading, error,
               dbAccounts, dbHistorical, dbGoal, dbSnapshots, localSnapshots,
               pending, nextAccountId, nextUuid, effectPending, started>>
chartVars == <<timeFrame, chart, performance>>
sessionVars == <<user, snapshotTableExists>>
vars == <<storeVars, now, lastEvent, chartVars, accountPerformance, sessionVars>>

PostgrestError == [code |-> "error"]

\* the one account holder of the model
SignedInUser == [id |-> "user"]

Event(kind, outcome) == [kind |-> kind, outcome |-> outcome]
\* how an awaited call ended: whether the saveSnapshot inside it threw and
\* whether the call itself threw to its caller
SettleEvent(kind, outcome, saveThrew, thrown) ==
  [kind |-> kind, outcome |-> outcome, saveSnapshotThrew |-> saveThrew,
   thrown |-> thrown]
\* a settled upsert: the payload dispatched and whether the reducer found
\* its year in the list (existingIndex !== -1)
UpsertEvent(kind, outcome, payload, found) ==
  [kind |-> kind, outcome |-> outcome, payload |-> payload, found |-> found]
CallEvent(kind, outcome, date) == [kind |-> kind, outcome |-> outcome, date |-> date]

\* initialState, an empty store, no operation in flight
Init ==
  /\ accounts = <<>>
  /\ snapshots = <<>>
  /\ historicalData = <<>>
  /\ userGoal = Null
  /\ loading = TRUE
  /\ error = Null
  /\ dbAccounts = {}
  /\ dbHistorical = {}
  /\ dbGoal = Null
  /\ dbSnapshots = {}
  /\ localSnapshots = <<>>
  /\ pending = <<>>
  /\ nextAccountId = 1
  /\ nextUuid = 1
  /\ started = 0
  /\ now = 0
  /\ effectPending = FALSE
  /\ lastEvent = Event("init", "ok")
  /\ timeFrame = "ALL"
  /\ chart = <<>>
  /\ performance = Null
  /\ accountPerformance = <<>>
  /\ user = SignedInUser
  /\ snapshotTableExists = TRUE

Remove(s, i) == SubSeq(s, 1, i - 1) \o SubSeq(s, i + 1, Len(s))

AccountIdsInMemory == {accounts[i].id : i \in 1..Len(accounts)}

\* fetchAllUserData has resumed from `await fetchSnapshots()` and goes on,
\* in the same turn of the event loop, to the goal response
ContinuationDue ==
  \E i \in 1..Len(pending) :
    pending[i].kind = "fetchAllUserData" /\ pending[i].pc = "goal"

\* An event handler runs only once the effects of the last render have run
\* and no continuation is due.
Idle == ~effectPending /\ ~ContinuationDue

\* every operation returns or throws at once when there is no user
CanStart == Idle /\ user # Null /\ started < MaxOps

Tick ==
  /\ Idle
  /\ now < MaxTime
  /\ now' = now + 1
  /\ lastEvent' = Event("tick", "ok")
  /\ UNCHANGED <<storeVars, chartVars, accountPerformance, sessionVars>>

\* ------------------------------------------------------------ addAccount
AddAccountStart(type, balance) ==
  /\ CanStart
  /\ LET initialBalanceEntry == [date |-> now, balance |-> balance]
         op == [kind |-> "addAccount", type |-> type,
                balance_history |-> <<initialBalanceEntry>>]
     IN /\ pending' = Append(pending, op)
        /\ lastEvent' = Event("addAccount", "start")
  /\ UNCHANGED <<accounts, snapshots, historicalData, userGoal, loading, error,
                 dbAccounts, dbHistorical, dbGoal, dbSnapshots, localSnapshots,
                 nextAccountId, nextUuid, effectPending, now, chartVars,
                 accountPerformance, sessionVars>>
  /\ started' = started + 1

AddAccountOk(i) ==
  /\ Idle
  /\ i \in 1..Len(pending) /\ pending[i].kind = "addAccount"
  /\ LET op == pending[i]
         data == [id |-> nextAccountId, type |-> op.type,
                  balance_history |-> op.balance_history]
         newAccount == [id |-> data.id, type |-> data.type,
                        balanceHistory |-> data.balance_history]
     IN /\ dbAccounts' = dbAccounts \cup {data}
        /\ nextAccountId' = nextAccountId + 1
        /\ accounts' = ADD_ACCOUNT(accounts, newAccount)
        /\ error' = Null
        /\ effectPending' = TRUE
        /\ pending' = Remove(pending, i)
        /\ lastEvent' = Event("addAccount", "ok")
  /\ UNCHANGED <<snapshots, historicalData, userGoal, loading,
                 dbHistorical, dbGoal, dbSnapshots, localSnapshots,
                 nextUuid, now, chartVars, accountPerformance, sessionVars>>
  /\ UNCHANGED started

AddAccountFail(i) ==
  /\ Idle
  /\ i \in 1..Len(pending) /\ pending[i].kind = "addAccount"
  /\ error' = PostgrestError
  /\ pending' = Remove(pending, i)
  /\ lastEvent' = Event("addAccount", "fail")
  /\ UNCHANGED <<accounts, snapshots, historicalData, userGoal, loading,
                 dbAccounts, dbHistorical, dbGoal, dbSnapshots, localSnapshots,
                 nextAccountId, nextUuid, effectPending, now, chartVars,
                 accountPerformance, sessionVars>>
  /\ UNCHANGED started

\* ------------------------------------------------------- addBalanceEntry
DbHasAccount(id) == \E r \in dbAccounts : r.id = id
DbAccount(id) == CHOOSE r \in dbAccounts : r.id = id

\* currentHistory.filter(entry => entry.date !== date), then the new entry
\* appended and the whole sorted ascending by date
UpdatedHistory(currentHistory, balance, date) ==
  LET newEntry == [date |-> date, balance |-> balance]
      filteredHistory == SelectSeq(currentHistory, LAMBDA entry : entry.date # date)
  IN SortAscending(Append(filteredHistory, newEntry))

\* dispatch SET_LOADING true, then await the select of balance_history
AddBalanceEntryStart(accountId, balance, date) ==
  /\ CanStart
  /\ accountId \in AccountIdsInMemory
  /\ LET op == [kind |-> "addBalanceEntry", pc |-> "fetch",
                accountId |-> accountId, balance |-> balance, date |-> date,
                updatedHistory |-> <<>>]
     IN /\ pending' = Append(pending, op)
        /\ lastEvent' = Event("addBalanceEntry", "start")
  /\ loading' = TRUE
  /\ UNCHANGED <<accounts, snapshots, historicalData, userGoal, error,
                 dbAccounts, dbHistorical, dbGoal, dbSnapshots, localSnapshots,
                 nextAccountId, nextUuid, effectPending, now, chartVars,
                 accountPerformance, sessionVars>>
  /\ started' = started + 1

\* the select answers: the new history is prepared and the update is sent
AddBalanceEntryFetched(i) ==
  /\ Idle
  /\ i \in 1..Len(pending)
  /\ pending[i].kind = "addBalanceEntry" /\ pending[i].pc = "fetch"
  /\ DbHasAccount(pending[i].accountId)
  /\ LET op == pending[i]
         currentHistory == DbAccount(op.accountId).balance_history
         next == [op EXCEPT !.pc = "update",
                            !.updatedHistory =
                               UpdatedHistory(currentHistory, op.balance, op.date)]
     IN /\ pending' = [pending EXCEPT ![i] = next]
        /\ lastEvent' = Event("addBalanceEntry", "fetched")
  /\ UNCHANGED <<accounts, snapshots, historicalData, userGoal, loading, error,
                 dbAccounts, dbHistorical, dbGoal, dbSnapshots, localSnapshots,
                 nextAccountId, nextUuid, effectPending, now, chartVars,
                 accountPerformance, sessionVars>>
  /\ UNCHANGED started

\* the update answers without error: the row (if it still exists) takes the
\* prepared history, then ADD_BALANCE_ENTRY, SET_ERROR null, SET_LOADING false
AddBalanceEntryOk(i) ==
  /\ Idle
  /\ i \in 1..Len(pending)
  /\ pending[i].kind = "addBalanceEntry" /\ pending[i].pc = "update"
  /\ LET op == pending[i]
     IN /\ dbAccounts' =
             {IF r.id = op.accountId
              THEN [r EXCEPT !.balance_history = op.updatedHistory]
              ELSE r : r \in dbAccounts}
        /\ accounts' = ADD_BALANCE_ENTRY(accounts, op.accountId, op.balance, op.date)
        /\ lastEvent' = Event("addBalanceEntry", "ok")
  /\ error' = Null
  /\ loading' = FALSE
  /\ effectPending' = TRUE
  /\ pending' = Remove(pending, i)
  /\ UNCHANGED <<snapshots, historicalData, userGoal,
                 dbHistorical, dbGoal, dbSnapshots, localSnapshots,
                 nextAccountId, nextUuid, now, chartVars,
                 accountPerformance, sessionVars>>
  /\ UNCHANGED started

\* an optimistic addBalanceEntry: the entry is dispatched although the
\* request has failed
AddBalanceEntryFailOptimistic(i) ==
  /\ Idle
  /\ i \in 1..Len(pending) /\ pending[i].kind = "addBalanceEntry"
  /\ accounts' = ADD_BALANCE_ENTRY(accounts, pending[i].accountId,
                                   pending[i].balance, pending[i].date)
  /\ error' = PostgrestError
  /\ loading' = FALSE
  /\ pending' = Remove(pending, i)
  /\ lastEvent' = Event("addBalanceEntry", "fail")
  /\ UNCHANGED <<snapshots, historicalData, userGoal,
                 dbAccounts, dbHistorical, dbGoal, dbSnapshots, localSnapshots,
                 nextAccountId, nextUuid, effectPending, now, chartVars,
                 accountPerformance, sessionVars>>
  /\ UNCHANGED started

\* either request fails (the select also when the row is gone): SET_ERROR,
\* rethrow, SET_LOADING false
AddBalanceEntryFail(i) ==
  /\ Idle
  /\ i \in 1..Len(pending) /\ pending[i].kind = "addBalanceEntry"
  /\ error' = PostgrestError
  /\ loading' = FALSE
  /\ pending' = Remove(pending, i)
  /\ lastEvent' = Event("addBalanceEntry", "fail")
  /\ UNCHANGED <<accounts, snapshots, historicalData, userGoal,
                 dbAccounts, dbHistorical, dbGoal, dbSnapshots, localSnapshots,
                 nextAccountId, nextUuid, effectPending, now, chartVars,
                 accountPerformance, sessionVars>>
  /\ UNCHANGED started

\* --------------------------------------------------------- deleteAccount
DeleteAccountStart(accountId) ==
  /\ CanStart
  /\ accountId \in AccountIdsInMemory
  /\ LET op == [kind |-> "deleteAccount", accountId |-> accountId]
     IN /\ pending' = Append(pending, op)
        /\ lastEvent' = Event("deleteAccount", "start")
  /\ UNCHANGED <<accounts, snapshots, historicalData, userGoal, loading, error,
                 dbAccounts, dbHistorical, dbGoal, dbSnapshots, localSnapshots,
                 nextAccountId, nextUuid, effectPending, now, chartVars,
                 accountPerformance, sessionVars>>
  /\ started' = started + 1

DeleteAccountOk(i) ==
  /\ Idle
  /\ i \in 1..Len(pending) /\ pending[i].kind = "deleteAccount"
  /\ LET op == pending[i]
     IN /\ dbAccounts' = {r \in dbAccounts : r.id # op.accountId}
        /\ accounts' = DELETE_ACCOUNT(accounts, op.accountId)
        /\ lastEvent' = Event("deleteAccount", "ok")
  /\ effectPending' = TRUE
  /\ pending' = Remove(pending, i)
  /\ UNCHANGED <<snapshots, historicalData, userGoal, loading, error,
                 dbHistorical, dbGoal, dbSnapshots, localSnapshots,
                 nextAccountId, nextUuid, now, chartVars,
                 accountPerformance, sessionVars>>
  /\ UNCHANGED started

DeleteAccountFail(i) ==
  /\ Idle
  /\ i \in 1..Len(pending) /\ pending[i].kind = "deleteAccount"
  /\ error' = PostgrestError
  /\ pending' = Remove(pending, i)
  /\ lastEvent' = Event("deleteAccount", "fail")
  /\ UNCHANGED <<accounts, snapshots, historicalData, userGoal, loading,
                 dbAccounts, dbHistorical, dbGoal, dbSnapshots, localSnapshots,
                 nextAccountId, nextUuid, effectPending, now, chartVars,
                 accountPerformance, sessionVars>>
  /\ UNCHANGED started

\* ------------------------------------------------- updateAccountMetadata
UpdateAccountMetadataStart(id, type) ==
  /\ CanStart
  /\ id \in AccountIdsInMemory
  /\ LET op == [kind |-> "updateAccountMetadata", id |-> id, type |-> type]
     IN /\ pending' = Append(pending, op)
        /\ lastEvent' = Event("updateAccountMetadata", "start")
  /\ UNCHANGED <<accounts, snapshots, historicalData, userGoal, loading, error,
                 dbAccounts, dbHistorical, dbGoal, dbSnapshots, localSnapshots,
                 nextAccountId, nextUuid, effectPending, now, chartVars,
                 accountPerformance, sessionVars>>
  /\ started' = started + 1

\* update(...).select().single() returns the updated row; the account in
\* memory is replaced by it, balance_history included
UpdateAccountMetadataOk(i) ==
  /\ Idle
  /\ i \in 1..Len(pending) /\ pending[i].kind = "updateAccountMetadata"
  /\ DbHasAccount(pending[i].id)
  /\ LET op == pending[i]
         data == [DbAccount(op.id) EXCEPT !.type = op.type]
         updatedAccount == [id |-> data.id, type |-> data.type,
                            balanceHistory |-> data.balance_history]
     IN /\ dbAccounts' = (dbAccounts \ {DbAccount(op.id)}) \cup {data}
        /\ accounts' = UPDATE_ACCOUNT_METADATA(accounts, updatedAccount)
        /\ lastEvent' = Event("updateAccountMetadata", "ok")
  /\ error' = Null
  /\ effectPending' = TRUE
  /\ pending' = Remove(pending, i)
  /\ UNCHANGED <<snapshots, historicalData, userGoal, loading,
                 dbHistorical, dbGoal, dbSnapshots, localSnapshots,
                 nextAccountId, nextUuid, now, chartVars,
                 accountPerformance, sessionVars>>
  /\ UNCHANGED started

UpdateAccountMetadataFail(i) ==
  /\ Idle
  /\ i \in 1..Len(pending) /\ pending[i].kind = "updateAccountMetadata"
  /\ error' = PostgrestError
  /\ pending' = Remove(pending, i)
  /\ lastEvent' = Event("updateAccountMetadata", "fail")
  /\ UNCHANGED <<accounts, snapshots, historicalData, userGoal, loading,
                 dbAccounts, dbHistorical, dbGoal, dbSnapshots, localSnapshots,
                 nextAccountId, nextUuid, effectPending, now, chartVars,
                 accountPerformance, sessionVars>>
  /\ UNCHANGED started

\* ---------------------------------- upsertHistoricalData, deleteHistoricalData
\* each dispatches SET_LOADING true before it awaits the store
HistoricalStart(op) ==
  /\ CanStart
  /\ pending' = Append(pending, op)
  /\ lastEvent' = Event(op.kind, "start")
  /\ loading' = TRUE
  /\ UNCHANGED <<accounts, snapshots, historicalData, userGoal, error,
                 dbAccounts, dbHistorical, dbGoal, dbSnapshots, localSnapshots,
                 nextAccountId, nextUuid, effectPending, now, chartVars,
                 accountPerformance, sessionVars>>
  /\ started' = started + 1

UpsertHistoricalDataStart(year, net_worth) ==
  HistoricalStart([kind |-> "upsertHistoricalData",
                   dataPoint |-> [year |-> year, net_worth |-> net_worth]])

DeleteHistoricalDataStart(year) ==
  HistoricalStart([kind |-> "deleteHistoricalData", year |-> year])

\* upsert(..., { onConflict: 'user_id, year' })
UpsertHistoricalDataOk(i) ==
  /\ Idle
  /\ i \in 1..Len(pending) /\ pending[i].kind = "upsertHistoricalData"
  /\ LET op == pending[i]
     IN /\ dbHistorical' =
             {r \in dbHistorical : r.year # op.dataPoint.year} \cup {op.dataPoint}
        /\ historicalData' = UPSERT_HISTORICAL_DATA(historicalData, op.dataPoint)
        /\ lastEvent' = UpsertEvent(op.kind, "ok", op.dataPoint,
                                    \E k \in 1..Len(historicalData) :
                                      historicalData[k].year = op.dataPoint.year)
  /\ error' = Null
  /\ loading' = FALSE
  /\ pending' = Remove(pending, i)
  /\ UNCHANGED <<accounts, snapshots, userGoal,
                 dbAccounts, dbGoal, dbSnapshots, localSnapshots,
                 nextAccountId, nextUuid, effectPending, now, chartVars,
                 accountPerformance, sessionVars>>
  /\ UNCHANGED started

DeleteHistoricalDataOk(i) ==
  /\ Idle
  /\ i \in 1..Len(pending) /\ pending[i].kind = "deleteHistoricalData"
  /\ LET op == pending[i]
     IN /\ dbHistorical' = {r \in dbHistorical : r.year # op.year}
        /\ historicalData' = DELETE_HISTORICAL_DATA(historicalData, op.year)
        /\ lastEvent' = Event(op.kind, "ok")
  /\ error' = Null
  /\ loading' = FALSE
  /\ pending' = Remove(pending, i)
  /\ UNCHANGED <<accounts, snapshots, userGoal,
                 dbAccounts, dbGoal, dbSnapshots, localSnapshots,
                 nextAccountId, nextUuid, effectPending, now, chartVars,
                 accountPerformance, sessionVars>>
  /\ UNCHANGED started

\* catch: SET_ERROR, rethrow; finally: SET_LOADING false
HistoricalFail(i) ==
  /\ Idle
  /\ i \in 1..Len(pending)
  /\ pending[i].kind \in {"upsertHistoricalData", "deleteHistoricalData"}
  /\ error' = PostgrestError
  /\ loading' = FALSE
  /\ pending' = Remove(pending, i)
  /\ lastEvent' = Event(pending[i].kind, "fail")
  /\ UNCHANGED <<accounts, snapshots, historicalData, userGoal,
                 dbAccounts, dbHistorical, dbGoal, dbSnapshots, localSnapshots,
                 nextAccountId, nextUuid, effectPending, now, chartVars,
                 accountPerformance, sessionVars>>
  /\ UNCHANGED started

\* ------------------------------------------- setUserGoal, deleteUserGoal
GoalStart(op) ==
  /\ CanStart
  /\ pending' = Append(pending, op)
  /\ lastEvent' = Event(op.kind, "start")
  /\ loading' = TRUE
  /\ UNCHANGED <<accounts, snapshots, historicalData, userGoal, error,
                 dbAccounts, dbHistorical, dbGoal, dbSnapshots, localSnapshots,
                 nextAccountId, nextUuid, effectPending, now, chartVars,
                 accountPerformance, sessionVars>>
  /\ started' = started + 1

SetUserGoalStart(target_amount, target_date) ==
  GoalStart([kind |-> "setUserGoal",
             goal |-> [target_amount |-> target_amount,
                       target_date |-> target_date]])

DeleteUserGoalStart ==
  GoalStart([kind |-> "deleteUserGoal"])

\* upsert(...).select().single(): the stored row comes back and is dispatched
SetUserGoalOk(i) ==
  /\ Idle
  /\ i \in 1..Len(pending) /\ pending[i].kind = "setUserGoal"
  /\ LET op == pending[i]
         data == op.goal
     IN /\ dbGoal' = data
        /\ userGoal' = data
        /\ lastEvent' = Event(op.kind, "ok")
  /\ error' = Null
  /\ loading' = FALSE
  /\ pending' = Remove(pending, i)
  /\ UNCHANGED <<accounts, snapshots, historicalData,
                 dbAccounts, dbHistorical, dbSnapshots, localSnapshots,
                 nextAccountId, nextUuid, effectPending, now, chartVars,
                 accountPerformance, sessionVars>>
  /\ UNCHANGED started

DeleteUserGoalOk(i) ==
  /\ Idle
  /\ i \in 1..Len(pending) /\ pending[i].kind = "deleteUserGoal"
  /\ dbGoal' = Null
  /\ userGoal' = Null
  /\ lastEvent' = Event("deleteUserGoal", "ok")
  /\ error' = Null
  /\ loading' = FALSE
  /\ pending' = Remove(pending, i)
  /\ UNCHANGED <<accounts, snapshots, historicalData,
                 dbAccounts, dbHistorical, dbSnapshots, localSnapshots,
                 nextAccountId, nextUuid, effectPending, now, chartVars,
                 accountPerformance, sessionVars>>
  /\ UNCHANGED started

GoalFail(i) ==
  /\ Idle
  /\ i \in 1..Len(pending)
  /\ pending[i].kind \in {"setUserGoal", "deleteUserGoal"}
  /\ error' = PostgrestError
  /\ loading' = FALSE
  /\ pending' = Remove(pending, i)
  /\ lastEvent' = Event(pending[i].kind, "fail")
  /\ UNCHANGED <<accounts, snapshots, historicalData, userGoal,
                 dbAccounts, dbHistorical, dbGoal, dbSnapshots, localSnapshots,
                 nextAccountId, nextUuid, effectPending, now, chartVars,
                 accountPerformance, sessionVars>>
  /\ UNCHANGED started

\* ------------------------------------------------------------- snapshots
\* date.split('T')[0]: the calendar day of an ISO date string
DateOnly(date) == date \div TicksPerDay

HasSnapshotOn(snaps, day) ==
  \E k \in 1..Len(snaps) : DateOnly(snaps[k].date) = day

\* state.snapshots.find(s => s.date.split('T')[0] === snapshotDateOnly):
\* the first snapshot of that day, or Null (undefined)
ExistingTodaySnapshot(snaps, snapshotDate) ==
  IF HasSnapshotOn(snaps, DateOnly(snapshotDate))
  THEN LET k == CHOOSE j \in 1..Len(snaps) :
                  /\ DateOnly(snaps[j].date) = DateOnly(snapshotDate)
                  /\ \A m \in 1..(j - 1) :
                       DateOnly(snaps[m].date) # DateOnly(snapshotDate)
       IN snaps[k]
  ELSE Null

\* createAndSaveSnapshot returns before it writes anything
SnapshotNotWritten(accs, snaps, snapshotDate) ==
  LET existingTodaySnapshot == ExistingTodaySnapshot(snaps, snapshotDate)
      currentTotals == calculateNetWorth(accs)
  IN \/ Len(accs) = 0
     \/ /\ existingTodaySnapshot # Null
        /\ Abs(existingTodaySnapshot.netWorth - currentTotals.netWorth)
             < MaterialityThreshold

CreateAndSaveSnapshotReturn(date) ==
  /\ Idle
  /\ (user = Null \/ SnapshotNotWritten(accounts, snapshots, date))
  /\ lastEvent' = CallEvent("createAndSaveSnapshot", "skip", date)
  /\ UNCHANGED <<storeVars, now, chartVars, accountPerformance, sessionVars>>

\* the snapshot is built from the state of this render and handed to
\* saveSnapshot, which awaits the upsert
CreateAndSaveSnapshotStart(date) ==
  /\ CanStart
  /\ ~SnapshotNotWritten(accounts, snapshots, date)
  /\ LET existingTodaySnapshot == ExistingTodaySnapshot(snapshots, date)
         currentTotals == calculateNetWorth(accounts)
         snapshotAccounts ==
           [i \in 1..Len(accounts) |->
              [id |-> accounts[i].id, balance |-> getCurrentBalance(accounts[i])]]
         newSnapshot ==
           [id |-> IF existingTodaySnapshot # Null
                   THEN existingTodaySnapshot.id ELSE nextUuid,
            date |-> date,
            totalAssets |-> currentTotals.totalAssets,
            totalLiabilities |-> currentTotals.totalLiabilities,
            netWorth |-> currentTotals.netWorth,
            accounts |-> snapshotAccounts]
         op == [kind |-> "createAndSaveSnapshot", snapshot |-> newSnapshot]
     IN /\ pending' = Append(pending, op)
        /\ nextUuid' = IF existingTodaySnapshot # Null THEN nextUuid ELSE nextUuid + 1
        /\ lastEvent' = CallEvent("createAndSaveSnapshot", "start", date)
  /\ UNCHANGED <<accounts, snapshots, historicalData, userGoal, loading, error,
                 dbAccounts, dbHistorical, dbGoal, dbSnapshots, localSnapshots,
                 nextAccountId, effectPending, now, chartVars,
                 accountPerformance, sessionVars>>
  /\ started' = started + 1

\* localStorage fallback of saveSnapshot: replace the stored snapshot with
\* the same id, or push
SaveLocal(stored, snapshot) ==
  IF \E k \in 1..Len(stored) : stored[k].id = snapshot.id
  THEN LET existingIndex ==
             CHOOSE k \in 1..Len(stored) :
               /\ stored[k].id = snapshot.id
               /\ \A m \in 1..(k - 1) : stored[m].id # snapshot.id
       IN [stored EXCEPT ![existingIndex] = snapshot]
  ELSE Append(stored, snapshot)

\* what createAndSaveSnapshot does once saveSnapshot has settled, whether it
\* resolved or threw: dispatch ADD_SNAPSHOT with the snapshot's date
SnapshotSettled(i, outcome) ==
  /\ snapshots' = ADD_SNAPSHOT(accounts, snapshots, pending[i].snapshot.date, nextUuid)
  /\ nextUuid' = IF Len(accounts) = 0 THEN nextUuid ELSE nextUuid + 1
  /\ pending' = Remove(pending, i)
  /\ lastEvent' = SettleEvent("createAndSaveSnapshot", outcome,
                              outcome = "fail", FALSE)
  /\ UNCHANGED <<accounts, historicalData, userGoal, loading, error,
                 dbAccounts, dbHistorical, dbGoal,
                 nextAccountId, effectPending, now, chartVars,
                 accountPerformance, sessionVars>>
  /\ UNCHANGED started

\* the upsert into net_worth_snapshots succeeds (primary key id)
SnapshotSavedRemote(i) ==
  /\ Idle
  /\ i \in 1..Len(pending) /\ pending[i].kind = "createAndSaveSnapshot"
  /\ snapshotTableExists
  /\ dbSnapshots' =
       {r \in dbSnapshots : r.id # pending[i].snapshot.id} \cup {pending[i].snapshot}
  /\ UNCHANGED localSnapshots
  /\ SnapshotSettled(i, "ok")

\* the upsert fails (with 42P01 when the table is absent, or with any other
\* error) and localStorage takes the snapshot
SnapshotSavedLocal(i) ==
  /\ Idle
  /\ i \in 1..Len(pending) /\ pending[i].kind = "createAndSaveSnapshot"
  /\ localSnapshots' = SaveLocal(localSnapshots, pending[i].snapshot)
  /\ UNCHANGED dbSnapshots
  /\ SnapshotSettled(i, "local")

\* a createAndSaveSnapshot whose catch gives the snapshot up
SnapshotSaveFailedDropped(i) ==
  /\ Idle
  /\ i \in 1..Len(pending) /\ pending[i].kind = "createAndSaveSnapshot"
  /\ pending' = Remove(pending, i)
  /\ lastEvent' = SettleEvent("createAndSaveSnapshot", "fail", TRUE, FALSE)
  /\ UNCHANGED <<accounts, snapshots, historicalData, userGoal, loading, error,
                 dbAccounts, dbHistorical, dbGoal, dbSnapshots, localSnapshots,
                 nextAccountId, nextUuid, effectPending, now, chartVars,
                 accountPerformance, sessionVars, started>>

\* the upsert fails and localStorage throws as well: saveSnapshot rethrows
SnapshotSaveFailed(i) ==
  /\ Idle
  /\ i \in 1..Len(pending) /\ pending[i].kind = "createAndSaveSnapshot"
  /\ UNCHANGED <<dbSnapshots, localSnapshots>>
  /\ SnapshotSettled(i, "fail")

\* The render that follows a change of state.accounts: AccountList's memo
\* on [state.accounts] is recomputed, then AppContent's effect on
\* [state.accounts, user, totals] dispatches ADD_SNAPSHOT dated now, unless
\* there is no user
SnapshotEffect ==
  /\ effectPending
  /\ effectPending' = FALSE
  /\ accountPerformance' = AccountPerformance(accounts)
  /\ snapshots' = IF user = Null THEN snapshots
                  ELSE ADD_SNAPSHOT(accounts, snapshots, now, nextUuid)
  /\ nextUuid' = IF user = Null \/ Len(accounts) = 0
                 THEN nextUuid ELSE nextUuid + 1
  /\ lastEvent' = Event("snapshotEffect", "ok")
  /\ UNCHANGED <<accounts, historicalData, userGoal, loading, error,
                 dbAccounts, dbHistorical, dbGoal, dbSnapshots, localSnapshots,
                 pending, nextAccountId, now, chartVars, sessionVars>>
  /\ UNCHANGED started

\* ------------------------------------------------------ fetchAllUserData
\* the rows of a select in one of the orders the store may return them in
RowOrders(rows) ==
  {order \in [1..Cardinality(rows) -> rows] :
     \A a, b \in 1..Cardinality(rows) : order[a] = order[b] => a = b}

SET_ACCOUNTS(payload) == payload

\* action.payload.sort by date
SET_SNAPSHOTS(payload) == SortAscending(payload)

\* action.payload.sort((a, b) => a.year - b.year)
RECURSIVE SET_HISTORICAL_DATA(_)
SET_HISTORICAL_DATA(payload) ==
  IF payload = <<>> THEN <<>>
  ELSE With(SET_HISTORICAL_DATA(SubSeq(payload, 1, Len(payload) - 1)),
            LAMBDA sorted : InsertByYear(sorted, payload[Len(payload)]))

\* onAuthStateChange delivers a session: user is set, fetchAllUserData is
\* rebuilt and its effect runs: SET_LOADING true, SET_ERROR null, then the
\* three queries are awaited
SignIn ==
  /\ Idle
  /\ user = Null
  /\ started < MaxOps
  /\ user' = SignedInUser
  /\ loading' = TRUE
  /\ error' = Null
  /\ pending' = Append(pending,
                       [kind |-> "fetchAllUserData", pc |-> "queries",
                        accountsFailed |-> FALSE, historicalFailed |-> FALSE,
                        goalResponse |-> Null])
  /\ effectPending' = TRUE
  /\ started' = started + 1
  /\ lastEvent' = Event("signIn", "ok")
  /\ UNCHANGED <<accounts, snapshots, historicalData, userGoal,
                 dbAccounts, dbHistorical, dbGoal, dbSnapshots, localSnapshots,
                 nextAccountId, nextUuid, now, chartVars, accountPerformance,
                 snapshotTableExists>>

\* onAuthStateChange delivers no session: user becomes null and the effect
\* runs fetchAllUserData, which resets the state and returns
SignOut ==
  /\ Idle
  /\ user # Null
  /\ started < MaxOps
  /\ user' = Null
  /\ accounts' = SET_ACCOUNTS(<<>>)
  /\ historicalData' = SET_HISTORICAL_DATA(<<>>)
  /\ snapshots' = SET_SNAPSHOTS(<<>>)
  /\ userGoal' = Null
  /\ error' = Null
  /\ loading' = FALSE
  /\ effectPending' = TRUE
  /\ started' = started + 1
  /\ lastEvent' = Event("signOut", "ok")
  /\ UNCHANGED <<dbAccounts, dbHistorical, dbGoal, dbSnapshots, localSnapshots,
                 pending, nextAccountId, nextUuid, now, chartVars,
                 accountPerformance, snapshotTableExists>>

\* Promise.all resolves (a query that fails resolves with an error): the
\* accounts and the historical data are dispatched, SET_ACCOUNTS emptying
\* the snapshot list, and fetchSnapshots is called, which dispatches
\* SET_LOADING true and awaits its select
FetchAllUserDataResponded(i, accountsFailed, historicalFailed, goalFailed) ==
  /\ Idle
  /\ i \in 1..Len(pending)
  /\ pending[i].kind = "fetchAllUserData" /\ pending[i].pc = "queries"
  /\ \E accountRows \in RowOrders(dbAccounts),
        historicalRows \in RowOrders(dbHistorical) :
       /\ accounts' =
            IF accountsFailed THEN SET_ACCOUNTS(<<>>)
            ELSE SET_ACCOUNTS([k \in 1..Len(accountRows) |->
                                 [id |-> accountRows[k].id,
                                  type |-> accountRows[k].type,
                                  balanceHistory |-> accountRows[k].balance_history]])
       /\ historicalData' =
            IF historicalFailed THEN SET_HISTORICAL_DATA(<<>>)
            ELSE SET_HISTORICAL_DATA(historicalRows)
  /\ snapshots' = <<>>
  /\ error' = IF accountsFailed \/ historicalFailed THEN PostgrestError ELSE error
  /\ loading' = TRUE
  /\ effectPending' = TRUE
  /\ pending' = [pending EXCEPT ![i] =
                   [kind |-> "fetchAllUserData", pc |-> "snapshots",
                    accountsFailed |-> accountsFailed,
                    historicalFailed |-> historicalFailed,
                    goalResponse |->
                      [error |-> goalFailed,
                       data |-> IF goalFailed THEN Null ELSE dbGoal]]]
  /\ lastEvent' = Event("fetchAllUserData", "responded")
  /\ UNCHANGED <<userGoal, dbAccounts, dbHistorical, dbGoal, dbSnapshots,
                 localSnapshots, nextAccountId, nextUuid, started, now,
                 chartVars, accountPerformance, sessionVars>>

\* what fetchSnapshots leaves behind when its select has settled:
\* SET_SNAPSHOTS, SET_ERROR, and SET_LOADING false in the finally;
\* fetchAllUserData then resumes
FetchSnapshotsSettled(i, outcome, payload, err) ==
  /\ Idle
  /\ i \in 1..Len(pending)
  /\ pending[i].kind = "fetchAllUserData" /\ pending[i].pc = "snapshots"
  /\ snapshots' = SET_SNAPSHOTS(payload)
  /\ error' = err
  /\ loading' = FALSE
  /\ pending' = [pending EXCEPT ![i].pc = "goal"]
  /\ lastEvent' = Event("fetchSnapshots", outcome)
  /\ UNCHANGED <<accounts, historicalData, userGoal,
                 dbAccounts, dbHistorical, dbGoal, dbSnapshots, localSnapshots,
                 nextAccountId, nextUuid, effectPending, started, now,
                 chartVars, accountPerformance, sessionVars>>

\* the select answers with the rows in ascending order of date
FetchSnapshotsOk(i) ==
  /\ snapshotTableExists
  /\ \E rows \in RowOrders(dbSnapshots) :
       FetchSnapshotsSettled(i, "ok", SortAscending(rows), Null)

\* a fetchSnapshots that treats 42P01 like any other error
FetchSnapshotsTableAbsentAsFailure(i) ==
  /\ ~snapshotTableExists
  /\ FetchSnapshotsSettled(i, "42P01", <<>>, PostgrestError)

\* the select fails with 42P01: the list comes from localStorage, or is
\* empty when nothing is stored there
FetchSnapshotsTableAbsent(i) ==
  /\ ~snapshotTableExists
  /\ FetchSnapshotsSettled(i, "42P01", localSnapshots, Null)

\* the select fails with any other error: caught, SET_ERROR, SET_SNAPSHOTS []
FetchSnapshotsFail(i) ==
  FetchSnapshotsSettled(i, "error", <<>>, PostgrestError)

\* back in fetchAllUserData: the goal response is handled, then the finally
\* dispatches SET_LOADING false
FetchAllUserDataFinish(i) ==
  /\ ~effectPending
  /\ i \in 1..Len(pending)
  /\ pending[i].kind = "fetchAllUserData" /\ pending[i].pc = "goal"
  /\ userGoal' = pending[i].goalResponse.data
  /\ error' = IF pending[i].goalResponse.error THEN PostgrestError ELSE error
  /\ loading' = FALSE
  /\ pending' = Remove(pending, i)
  /\ lastEvent' = Event("fetchAllUserData", "finished")
  /\ UNCHANGED <<accounts, snapshots, historicalData,
                 dbAccounts, dbHistorical, dbGoal, dbSnapshots, localSnapshots,
                 nextAccountId, nextUuid, effectPending, started, now,
                 chartVars, accountPerformance, sessionVars>>

\* --------------------------------------------------------- specification
\* account and balance operations
NextAccounts ==
  \/ \E type \in AccountTypes, balance \in Balances : AddAccountStart(type, balance)
  \/ \E i \in 1..MaxOps : AddAccountOk(i)
  \/ \E i \in 1..MaxOps : AddAccountFail(i)
  \/ \E accountId \in 1..MaxOps, balance \in Balances, date \in Dates :
       AddBalanceEntryStart(accountId, balance, date)
  \/ \E i \in 1..MaxOps : AddBalanceEntryFetched(i)
  \/ \E i \in 1..MaxOps : AddBalanceEntryOk(i)
  \/ \E i \in 1..MaxOps : AddBalanceEntryFail(i)
  \/ \E accountId \in 1..MaxOps : DeleteAccountStart(accountId)
  \/ \E i \in 1..MaxOps : DeleteAccountOk(i)
  \/ \E i \in 1..MaxOps : DeleteAccountFail(i)
  \/ \E id \in 1..MaxOps, type \in AccountTypes :
       UpdateAccountMetadataStart(id, type)
  \/ \E i \in 1..MaxOps : UpdateAccountMetadataOk(i)
  \/ \E i \in 1..MaxOps : UpdateAccountMetadataFail(i)
  \/ SnapshotEffect

\* historical data and goal operations
NextRecords ==
  \/ \E year \in Years, net_worth \in NetWorths :
       UpsertHistoricalDataStart(year, net_worth)
  \/ \E year \in Years : DeleteHistoricalDataStart(year)
  \/ \E i \in 1..MaxOps : UpsertHistoricalDataOk(i)
  \/ \E i \in 1..MaxOps : DeleteHistoricalDataOk(i)
  \/ \E i \in 1..MaxOps : HistoricalFail(i)
  \/ \E target_amount \in GoalAmounts : SetUserGoalStart(target_amount, MaxTime)
  \/ DeleteUserGoalStart
  \/ \E i \in 1..MaxOps : SetUserGoalOk(i)
  \/ \E i \in 1..MaxOps : DeleteUserGoalOk(i)
  \/ \E i \in 1..MaxOps : GoalFail(i)

\* snapshot operations
NextSnapshots ==
  \/ \E date \in Dates : CreateAndSaveSnapshotReturn(date)
  \/ \E date \in Dates : CreateAndSaveSnapshotStart(date)
  \/ \E i \in 1..MaxOps : SnapshotSavedRemote(i)
  \/ \E i \in 1..MaxOps : SnapshotSavedLocal(i)
  \/ \E i \in 1..MaxOps : SnapshotSaveFailed(i)

Next == Tick \/ NextAccounts \/ NextRecords \/ NextSnapshots

Spec == Init /\ [][Next]_vars

\* ------------------------------------------- the aggregator on its own
\* Account lists as SET_ACCOUNTS loads them: any types, histories in
\* ascending date order.  The snapshot effect then aggregates them.
AggregateDates == {0, 1}
AggregateBalances == {-5, 0, 1000}
AggregateEntries ==
  {[date |-> d, balance |-> b] : d \in AggregateDates, b \in AggregateBalances}
AggregateHistories ==
  {<<>>} \cup {<<e>> : e \in AggregateEntries}
         \cup {<<pair[1], pair[2]>> :
                 pair \in {q \in AggregateEntries \X AggregateEntries :
                             q[1].date <= q[2].date}}
AccountShapes ==
  {[type |-> t, balanceHistory |-> h] : t \in AccountTypes, h \in AggregateHistories}

InitAggregate ==
  /\ \E n \in 0..MaxAggregateAccounts :
       \E shape \in [1..n -> AccountShapes] :
         accounts = [i \in 1..n |->
                       [id |-> i, type |-> shape[i].type,
                        balanceHistory |-> shape[i].balanceHistory]]
  /\ snapshots = <<>>
  /\ historicalData = <<>>
  /\ userGoal = Null
  /\ loading = FALSE
  /\ error = Null
  /\ dbAccounts = {[id |-> accounts[i].id, type |-> accounts[i].type,
                    balance_history |-> accounts[i].balanceHistory] :
                   i \in 1..Len(accounts)}
  /\ dbHistorical = {}
  /\ dbGoal = Null
  /\ dbSnapshots = {}
  /\ localSnapshots = <<>>
  /\ pending = <<>>
  /\ nextAccountId = Len(accounts) + 1
  /\ nextUuid = 1
  /\ started = 0
  /\ now = 0
  /\ effectPending = TRUE
  /\ lastEvent = Event("init", "ok")
  /\ timeFrame = "ALL"
  /\ chart = <<>>
  /\ performance = Null
  /\ accountPerformance = <<>>
  /\ user = SignedInUser
  /\ snapshotTableExists = TRUE

SpecAggregate == InitAggregate /\ [][SnapshotEffect]_vars

\* ------------------------------------------------ the chart on its own
\* A mounted NetWorthTrendChart over a loaded store: snapshots in any order
\* (ADD_SNAPSHOT appends whatever date it is given), historical data as the
\* reducer keeps it, one point per year in ascending order.
ChartNow == Instant(2024, 6, 19, 1)
ChartSnapshotDates ==
  {Instant(2024, 5, 27, 0), Instant(2024, 5, 28, 0), Instant(2024, 5, 29, 0),
   Instant(2024, 5, 30, 0), Instant(2024, 5, 31, 0), Instant(2024, 6, 1, 0),
   Instant(2024, 6, 2, 0), Instant(2024, 6, 2, 1), Instant(2024, 4, 30, 0),
   Instant(2023, 6, 20, 0), Instant(2023, 6, 10, 0),
   Instant(2024, 5, 14, 0), Instant(2024, 5, 15, 0), Instant(2025, 5, 28, 0),
   Instant(2024, 3, 20, 0), Instant(2023, 12, 20, 0), EndOfYear(2024)}
ChartNetWorths == {100, 200}
ChartSnapshots ==
  {[date |-> d, netWorth |-> v] : d \in ChartSnapshotDates, v \in ChartNetWorths}
ChartYears == {2023, 2024}
ChartHistoricalValues == {0, 50}
ChartHistoricalData ==
  {<<>>}
  \cup {<<[year |-> y, net_worth |-> v]>> :
          y \in ChartYears, v \in ChartHistoricalValues}
  \cup {<<[year |-> 2023, net_worth |-> v1], [year |-> 2024, net_worth |-> v2]>> :
          v1 \in ChartHistoricalValues, v2 \in ChartHistoricalValues}

InitChart ==
  /\ accounts = <<>>
  /\ \E n \in 0..MaxChartSnapshots :
       \E shape \in [1..n -> ChartSnapshots] :
         snapshots = [k \in 1..n |->
                        [id |-> k, date |-> shape[k].date,
                         totalAssets |-> shape[k].netWorth,
                         totalLiabilities |-> 0,
                         netWorth |-> shape[k].netWorth,
                         accounts |-> <<>>]]
  /\ historicalData \in ChartHistoricalData
  /\ userGoal = Null
  /\ loading = FALSE
  /\ error = Null
  /\ dbAccounts = {}
  /\ dbHistorical = {historicalData[k] : k \in 1..Len(historicalData)}
  /\ dbGoal = Null
  /\ dbSnapshots = {snapshots[k] : k \in 1..Len(snapshots)}
  /\ localSnapshots = <<>>
  /\ pending = <<>>
  /\ nextAccountId = 1
  /\ nextUuid = Len(snapshots) + 1
  /\ started = 0
  /\ now = ChartNow
  /\ effectPending = FALSE
  /\ lastEvent = Event("init", "ok")
  /\ timeFrame = "ALL"
  /\ chart = netWorthTrendData(snapshots, historicalData, "ALL", now)
  /\ performance = Performance(chart)
  /\ accountPerformance = <<>>
  /\ user = SignedInUser
  /\ snapshotTableExists = TRUE

\* the user picks a time frame; the memo is recomputed
SetTimeFrame(tf) ==
  /\ timeFrame' = tf
  /\ chart' = netWorthTrendData(snapshots, historicalData, tf, now)
  /\ performance' = Performance(chart')
  /\ lastEvent' = Event("setTimeFrame", "ok")
  /\ UNCHANGED <<storeVars, now, accountPerformance, sessionVars>>

SpecChart == InitChart /\ [][\E tf \in TimeFrames : SetTimeFrame(tf)]_vars

\* ------------------------------------------------ a session of one user
\* The provider mounted with no session (fetchAllUserData has reset the
\* state) over a store that already holds, or does not hold, the user's
\* rows; the user then signs in, works and signs out.
SessionAccountRows ==
  {{}, {[id |-> 1, type |-> "savings",
         balance_history |-> <<[date |-> 0, balance |-> 5]>>]}}
\* the user's historical points and goal: none yet, or two points and a goal
SessionRecords ==
  {[historical |-> {}, goal |-> Null],
   [historical |-> {[year |-> 2021, net_worth |-> 5],
                    [year |-> 2020, net_worth |-> 1000]},
    goal |-> [target_amount |-> 1000, target_date |-> MaxTime]]}
SessionSnapshot(id, date) ==
  [id |-> id, date |-> date, totalAssets |-> 5, totalLiabilities |-> 0,
   netWorth |-> 5, accounts |-> <<[id |-> 1, balance |-> 5]>>]
\* stored snapshots, the later one first
SessionStoredSnapshots ==
  {<<>>, <<SessionSnapshot(1, 1), SessionSnapshot(2, 0)>>}

InitSession ==
  /\ accounts = <<>>
  /\ snapshots = <<>>
  /\ historicalData = <<>>
  /\ userGoal = Null
  /\ loading = FALSE
  /\ error = Null
  /\ dbAccounts \in SessionAccountRows
  /\ \E records \in SessionRecords :
       /\ dbHistorical = records.historical
       /\ dbGoal = records.goal
  /\ snapshotTableExists \in BOOLEAN
  /\ \E stored \in SessionStoredSnapshots :
       dbSnapshots = IF snapshotTableExists
                     THEN {stored[k] : k \in 1..Len(stored)} ELSE {}
  /\ localSnapshots \in SessionStoredSnapshots
  /\ pending = <<>>
  /\ nextAccountId = Cardinality(dbAccounts) + 1
  /\ nextUuid = 3
  /\ started = 0
  /\ now = 0
  /\ effectPending = FALSE
  /\ lastEvent = Event("init", "ok")
  /\ timeFrame = "ALL"
  /\ chart = <<>>
  /\ performance = Null
  /\ accountPerformance = <<>>
  /\ user = Null

NextSession ==
  \/ SignIn
  \/ SignOut
  \/ \E i \in 1..MaxOps, accountsFailed, historicalFailed, goalFailed \in BOOLEAN :
       FetchAllUserDataResponded(i, accountsFailed, historicalFailed, goalFailed)
  \/ \E i \in 1..MaxOps : FetchSnapshotsOk(i)
  \/ \E i \in 1..MaxOps : FetchSnapshotsTableAbsent(i)
  \/ \E i \in 1..MaxOps : FetchSnapshotsFail(i)
  \/ \E i \in 1..MaxOps : FetchAllUserDataFinish(i)
  \/ SnapshotEffect
  \/ \E type \in AccountTypes, balance \in Balances : AddAccountStart(type, balance)
  \/ \E i \in 1..MaxOps : AddAccountOk(i)
  \/ \E accountId \in 1..MaxOps, balance \in Balances, date \in Dates :
       AddBalanceEntryStart(accountId, balance, date)
  \/ \E i \in 1..MaxOps : AddBalanceEntryFetched(i)
  \/ \E i \in 1..MaxOps : AddBalanceEntryOk(i)
  \/ \E year \in Years, net_worth \in NetWorths :
       UpsertHistoricalDataStart(year, net_worth)
  \/ \E i \in 1..MaxOps : UpsertHistoricalDataOk(i)
  \/ \E target_amount \in GoalAmounts : SetUserGoalStart(target_amount, MaxTime)
  \/ \E i \in 1..MaxOps : SetUserGoalOk(i)
  \/ \E date \in Dates : CreateAndSaveSnapshotStart(date)
  \/ \E i \in 1..MaxOps : SnapshotSavedRemote(i)
  \/ \E i \in 1..MaxOps : SnapshotSavedLocal(i)
  \/ \E i \in 1..MaxOps : SnapshotSaveFailed(i)

SpecSession == InitSession /\ [][NextSession]_vars

\* ================================================================ claims

IsLatestEntry(history, k) ==
  \A m \in 1..Len(history) : history[m].date <= history[k].date

\* C1: the current balance of every account is the balance of its history
\* entry with the maximum date, whatever the order in which the entries
\* were appended; an empty history gives 0 and no latest entry.
C1_CurrentBalanceIsLatestEntry ==
  \A i \in 1..Len(accounts) :
    LET history == accounts[i].balanceHistory
    IN IF Len(history) = 0
       THEN /\ getCurrentBalance(accounts[i]) = 0
            /\ getLatestBalanceEntry(accounts[i]) = Null
       ELSE \A k \in 1..Len(history) :
              IsLatestEntry(history, k) =>
                getCurrentBalance(accounts[i]) = history[k].balance

\* the sum of f over the index set S
RECURSIVE SumOf(_, _)
SumOf(f, S) ==
  IF S = {} THEN 0
  ELSE LET x == CHOOSE x \in S : TRUE IN f[x] + SumOf(f, S \ {x})

\* C2: calculateNetWorth of the account list equals the reference aggregate:
\* totalLiabilities is the sum of the current balances of the liability
\* accounts, totalAssets the sum of the current balances of all other
\* accounts, netWorth their difference, and all three are 0 for no accounts.
C2_AggregateMatchesReference ==
  LET totals == calculateNetWorth(accounts)
      currentBalances == [i \in 1..Len(accounts) |-> getCurrentBalance(accounts[i])]
      liabilities == {i \in 1..Len(accounts) : accounts[i].type = "liability"}
      others == (1..Len(accounts)) \ liabilities
  IN /\ totals.totalLiabilities = SumOf(currentBalances, liabilities)
     /\ totals.totalAssets = SumOf(currentBalances, others)
     /\ totals.netWorth = totals.totalAssets - totals.totalLiabilities
     /\ Len(accounts) = 0
          => totals = [totalAssets |-> 0, totalLiabilities |-> 0, netWorth |-> 0]

\* a snapshot has been taken of a list holding both a liability and an
\* asset with balances, and it carries the aggregate
C2_Witness ==
  /\ Len(snapshots) = 1
  /\ snapshots[1].netWorth = calculateNetWorth(accounts).netWorth
  /\ \E i, j \in 1..Len(accounts) :
       /\ accounts[i].type = "liability" /\ getCurrentBalance(accounts[i]) = 1000
       /\ accounts[j].type # "liability" /\ getCurrentBalance(accounts[j]) = -5

\* C3: the balance history in memory holds at most one entry per date.
C3_OneEntryPerDate ==
  \A i \in 1..Len(accounts) :
    \A k, m \in 1..Len(accounts[i].balanceHistory) :
      accounts[i].balanceHistory[k].date = accounts[i].balanceHistory[m].date
        => k = m

\* C4: the snapshot list in memory holds at most one snapshot per calendar
\* day.
C4_OneSnapshotPerDay ==
  \A k, m \in 1..Len(snapshots) :
    DateOnly(snapshots[k].date) = DateOnly(snapshots[m].date) => k = m

\* C5: a call of createAndSaveSnapshot made while some snapshot of the same
\* calendar day is within the materiality threshold of the current net
\* worth writes nothing: no save is issued and the snapshot list and both
\* snapshot stores stay as they are.
ImmaterialSnapshotExists(date) ==
  \E k \in 1..Len(snapshots) :
    /\ DateOnly(snapshots[k].date) = DateOnly(date)
    /\ Abs(snapshots[k].netWorth - calculateNetWorth(accounts).netWorth)
         < MaterialityThreshold

C5_ImmaterialSnapshotSkipped ==
  [][(/\ lastEvent'.kind = "createAndSaveSnapshot"
      /\ lastEvent'.outcome \in {"skip", "start"}
      /\ ImmaterialSnapshotExists(lastEvent'.date))
     => /\ pending' = pending
        /\ snapshots' = snapshots
        /\ dbSnapshots' = dbSnapshots
        /\ localSnapshots' = localSnapshots]_vars

\* C6: a step of one of the eight write operations that is not the success
\* of its persistence call (its start, an intermediate answer, its failure)
\* leaves accounts, historicalData and userGoal as they are, and a success
\* changes only the data the operation is about.
AccountWrites ==
  {"addAccount", "addBalanceEntry", "deleteAccount", "updateAccountMetadata"}
HistoricalWrites == {"upsertHistoricalData", "deleteHistoricalData"}
GoalWrites == {"setUserGoal", "deleteUserGoal"}

C6_MemoryAdvancesOnlyAfterPersistence ==
  [][lastEvent'.kind \in AccountWrites \cup HistoricalWrites \cup GoalWrites
     => /\ lastEvent'.outcome # "ok"
             => /\ accounts' = accounts
                /\ historicalData' = historicalData
                /\ userGoal' = userGoal
        /\ accounts' # accounts => lastEvent'.kind \in AccountWrites
        /\ historicalData' # historicalData => lastEvent'.kind \in HistoricalWrites
        /\ userGoal' # userGoal => lastEvent'.kind \in GoalWrites]_vars

\* a write has failed after data was stored: memory still holds that data
C6_Witness ==
  /\ lastEvent.outcome = "fail"
  /\ lastEvent.kind = "addBalanceEntry"
  /\ error = PostgrestError
  /\ Len(accounts) > 0
  /\ Len(historicalData) > 0

\* C7: every balance write that succeeds is applied to the history persisted
\* at that moment, so that of two successful writes to one account both
\* entries are persisted, as if the writes had run one after the other.
HistoryIn(rows, id) == (CHOOSE r \in rows : r.id = id).balance_history

C7_BalanceWritesSerialized ==
  [][\A i \in 1..Len(pending) :
       (/\ pending[i].kind = "addBalanceEntry"
        /\ pending[i].pc = "update"
        /\ lastEvent'.kind = "addBalanceEntry"
        /\ lastEvent'.outcome = "ok"
        /\ pending' = Remove(pending, i)
        /\ DbHasAccount(pending[i].accountId))
       => HistoryIn(dbAccounts', pending[i].accountId)
            = UpdatedHistory(HistoryIn(dbAccounts, pending[i].accountId),
                             pending[i].balance, pending[i].date)]_vars

\* the snapshots and the historical points inside the chart's window
SnapshotsInWindow ==
  {k \in 1..Len(snapshots) :
     snapshots[k].date >= StartDate(snapshots, historicalData, timeFrame, now)}
HistoricalInWindow ==
  {k \in 1..Len(historicalData) :
     EndOfYear(historicalData[k].year)
       >= StartDate(snapshots, historicalData, timeFrame, now)}
NetWorthOf == [k \in 1..Len(snapshots) |-> snapshots[k].netWorth]
SnapshotOutput == {p \in 1..Len(chart) : ~chart[p].isHistorical}

\* the day of the Monday on or before a day (1970-01-01 was a Thursday)
MondayOnOrBefore(day) == day - ((day + 3) % 7)

\* C8: for 3M every snapshot in the window, whatever its day of the week,
\* is counted in an output point dated the Monday on or before its date,
\* whose value is the mean of the window's snapshots of that week.
C8_WeeklyBucketStartsOnMonday ==
  timeFrame = "3M" =>
    \A k \in SnapshotsInWindow :
      LET monday == MondayOnOrBefore(DayOf(snapshots[k].date))
          week == {j \in SnapshotsInWindow :
                     MondayOnOrBefore(DayOf(snapshots[j].date)) = monday}
      IN \E p \in SnapshotOutput :
           /\ chart[p].date = CivilFromDays(monday)
           /\ chart[p].value = Fraction(SumOf(NetWorthOf, week), Cardinality(week))

\* C9: for 1Y and ALL the window's snapshots of one calendar month give
\* exactly one output point, dated the 1st of that month, whose value is
\* their arithmetic mean, and there are no other snapshot output points.
MonthOf(instant) ==
  LET c == CivilFromDays(DayOf(instant)) IN <<c.y, c.m>>

C9_MonthlyBucketIsMean ==
  timeFrame \in {"1Y", "ALL"} =>
    /\ \A k \in SnapshotsInWindow :
         LET month == MonthOf(snapshots[k].date)
             members == {j \in SnapshotsInWindow :
                           MonthOf(snapshots[j].date) = month}
             hits == {p \in SnapshotOutput :
                        chart[p].date = [y |-> month[1], m |-> month[2], d |-> 1]}
         IN /\ Cardinality(hits) = 1
            /\ \A p \in hits :
                 chart[p].value
                   = Fraction(SumOf(NetWorthOf, members), Cardinality(members))
    /\ Cardinality(SnapshotOutput)
         = Cardinality({MonthOf(snapshots[k].date) : k \in SnapshotsInWindow})

\* 1Y: snapshots of 100 and 200 in one month of the window are drawn as one
\* point of value 150
C9_Witness ==
  /\ timeFrame = "1Y"
  /\ lastEvent.kind = "setTimeFrame"
  /\ \E j, k \in SnapshotsInWindow :
       /\ MonthOf(snapshots[j].date) = MonthOf(snapshots[k].date)
       /\ snapshots[j].netWorth = 100
       /\ snapshots[k].netWorth = 200
  /\ \E p \in SnapshotOutput : chart[p].value = Number(150)

\* C10: for 1M the number of output points is the number of snapshots in
\* the window plus the number of historical points in the window, and every
\* snapshot of the window is drawn with its own date and value.
C10_IndividualPointsKeepCount ==
  timeFrame = "1M" =>
    /\ Len(chart) = Cardinality(SnapshotsInWindow) + Cardinality(HistoricalInWindow)
    /\ \A k \in SnapshotsInWindow :
         \E p \in SnapshotOutput :
           /\ chart[p].date = CivilFromDays(DayOf(snapshots[k].date))
           /\ chart[p].value = Number(snapshots[k].netWorth)

\* 1M: two snapshots of one day and a historical point, all in the window,
\* are drawn as three points
C10_Witness ==
  /\ timeFrame = "1M"
  /\ lastEvent.kind = "setTimeFrame"
  /\ \E j, k \in SnapshotsInWindow :
       /\ j # k
       /\ DayOf(snapshots[j].date) = DayOf(snapshots[k].date)
  /\ Cardinality(HistoricalInWindow) = 1
  /\ Len(chart) = 3

\* C11: for 6M two snapshots of the window share an output point exactly
\* when they agree in year, month and half of the month (day <= 14, or
\* later); the point is dated the 1st for the first half and the 15th for
\* the second, its value is the mean of the snapshots of that half, and
\* there is one snapshot output point per (year, month, half).
HalfMonthOf(instant) ==
  LET c == CivilFromDays(DayOf(instant))
  IN [y |-> c.y, m |-> c.m, d |-> IF c.d <= 14 THEN 1 ELSE 15]

C11_BiWeeklyBucketPerHalfMonth ==
  timeFrame = "6M" =>
    /\ \A k \in SnapshotsInWindow :
         LET half == HalfMonthOf(snapshots[k].date)
             members == {j \in SnapshotsInWindow :
                           HalfMonthOf(snapshots[j].date) = half}
             hits == {p \in SnapshotOutput : chart[p].date = half}
         IN /\ Cardinality(hits) = 1
            /\ \A p \in hits :
                 chart[p].value
                   = Fraction(SumOf(NetWorthOf, members), Cardinality(members))
    /\ Cardinality(SnapshotOutput)
         = Cardinality({HalfMonthOf(snapshots[k].date) : k \in SnapshotsInWindow})

\* 6M: snapshots of the 14th and the 15th of one month are drawn as two
\* points, dated the 1st and the 15th of that month
C11_Witness ==
  /\ timeFrame = "6M"
  /\ lastEvent.kind = "setTimeFrame"
  /\ \E j, k \in SnapshotsInWindow :
       /\ MonthOf(snapshots[j].date) = MonthOf(snapshots[k].date)
       /\ HalfMonthOf(snapshots[j].date).d = 1
       /\ HalfMonthOf(snapshots[k].date).d = 15
       /\ \E p, q \in SnapshotOutput :
            /\ chart[p].date = HalfMonthOf(snapshots[j].date)
            /\ chart[q].date = HalfMonthOf(snapshots[k].date)
            /\ chart[p].value = Number(snapshots[j].netWorth)
            /\ chart[q].value = Number(snapshots[k].netWorth)

\* C12: for every time frame each historical point of the window is drawn
\* exactly once, dated the end of its year, with its net_worth as it is;
\* the snapshot points are what they would be without any historical
\* data; for ALL every historical point is in the window, and with no
\* snapshots the series is the historical data, year by year.
HistoricalOutput == {p \in 1..Len(chart) : chart[p].isHistorical}
HistoricalPoint(dp) ==
  [date |-> [y |-> dp.year, m |-> 12, d |-> 31],
   value |-> Number(dp.net_worth),
   isHistorical |-> TRUE]

C12_HistoricalPointsPassThrough ==
  /\ \A k \in HistoricalInWindow :
       Cardinality({p \in HistoricalOutput :
                      chart[p].date = HistoricalPoint(historicalData[k]).date}) = 1
       /\ \E p \in HistoricalOutput : chart[p] = HistoricalPoint(historicalData[k])
  /\ Cardinality(HistoricalOutput) = Cardinality(HistoricalInWindow)
  /\ SelectSeq(chart, LAMBDA pt : ~pt.isHistorical)
       = netWorthTrendData(snapshots, <<>>, timeFrame, now)
  /\ timeFrame = "ALL" =>
       /\ HistoricalInWindow = 1..Len(historicalData)
       /\ Len(snapshots) = 0 =>
            chart = [k \in 1..Len(historicalData) |->
                       HistoricalPoint(historicalData[k])]

\* ALL: a snapshot of December 2024 and the historical point of 2024 are
\* drawn as two points, each with its own value
C12_Witness ==
  /\ timeFrame = "ALL"
  /\ lastEvent.kind = "setTimeFrame"
  /\ \E k \in 1..Len(historicalData), j \in 1..Len(snapshots) :
       /\ historicalData[k].year = 2024
       /\ historicalData[k].net_worth = 50
       /\ snapshots[j].date = EndOfYear(2024)
       /\ snapshots[j].netWorth = 100
       /\ \E p, q \in 1..Len(chart) :
            /\ chart[p] = HistoricalPoint(historicalData[k])
            /\ chart[q] = [date |-> [y |-> 2024, m |-> 12, d |-> 1],
                           value |-> Number(100), isHistorical |-> FALSE]

\* C13: the series does not depend on the order of the inputs: every
\* reordering of the snapshots and of the historical data, points with
\* identical timestamps included, gives the series on display, and that
\* series is in ascending order of date.
Reorderings(s) ==
  {[k \in 1..Len(s) |-> s[f[k]]] :
     f \in {g \in [1..Len(s) -> 1..Len(s)] :
              \A a, b \in 1..Len(s) : g[a] = g[b] => a = b}}

C13_SeriesIndependentOfInputOrder ==
  /\ \A snaps \in Reorderings(snapshots) :
       \A hist \in Reorderings(historicalData) :
         netWorthTrendData(snaps, hist, timeFrame, now) = chart
  /\ \A p, q \in 1..Len(chart) :
       p < q => ParseYmd(chart[p].date) <= ParseYmd(chart[q].date)

\* C14: the performance is null for a series of fewer than two points;
\* otherwise totalReturn is the last value minus the first, and
\* percentageChange is 0 when the first value is 0 and
\* (last - first) / first * 100 in every other case.
C14_PerformanceOfSeries ==
  IF Len(chart) < 2 THEN performance = Null
  ELSE LET first == chart[1].value
           last == chart[Len(chart)].value
           difference == last.num * first.den - first.num * last.den
           return == performance.totalReturn
           change == performance.percentageChange
       IN /\ performance # Null
          /\ return.den > 0
          /\ return.num * (first.den * last.den) = difference * return.den
          /\ first.num = 0 => change = Number(0)
          /\ first.num # 0 =>
               /\ change.den > 0
               /\ change.num * (first.num * last.den)
                    = 100 * difference * change.den

\* a series that starts at 50 and ends at 200: return 150, change 300 percent
C14_Witness ==
  /\ lastEvent.kind = "setTimeFrame"
  /\ Len(chart) >= 2
  /\ chart[1].value = Number(50)
  /\ chart[Len(chart)].value = Number(200)
  /\ performance # Null
  /\ performance.totalReturn = Number(150)
  /\ performance.percentageChange = Number(300)

\* C15: the percentage change shown for an account with at least two
\* entries is Infinity when its oldest balance is 0 and its latest is not,
\* and for every oldest balance other than 0, positive or negative, it is
\* (latest - oldest) / oldest * 100, the portfolio formula.
C15_AccountChangeFollowsPortfolioFormula ==
  ~effectPending =>
    \A i \in 1..Len(accounts) :
      Len(accounts[i].balanceHistory) >= 2 =>
        \E p \in 1..Len(accountPerformance) :
          LET history == accounts[i].balanceHistory
              oldest == history[1].balance
              latest == history[Len(history)].balance
              change == accountPerformance[p].percentageChange
          IN /\ accountPerformance[p].id = accounts[i].id
             /\ accountPerformance[p].hasEnoughData
             /\ (oldest = 0 /\ latest # 0) => change = Infinity
             /\ oldest # 0 =>
                  /\ change # Infinity
                  /\ change.den > 0
                  /\ change.num * oldest = 100 * (latest - oldest) * change.den

\* C16: the snapshot list in memory is in ascending order of date, so that
\* its last element is the snapshot with the latest date.
C16_SnapshotsAscendingByDate ==
  \A k, m \in 1..Len(snapshots) :
    k < m => snapshots[k].date <= snapshots[m].date

\* C17: every snapshot in memory has netWorth = totalAssets -
\* totalLiabilities and totals that add up to the balances it lists; a
\* snapshot is created with the aggregate and the current balances of the
\* accounts of that moment; and no step changes a snapshot already there.
ListedBalances(snapshot) ==
  [i \in 1..Len(snapshot.accounts) |-> snapshot.accounts[i].balance]

C17_SnapshotsConsistentAndImmutable ==
  [][/\ \A k \in 1..Len(snapshots') :
          /\ snapshots'[k].netWorth
               = snapshots'[k].totalAssets - snapshots'[k].totalLiabilities
          /\ snapshots'[k].totalAssets + snapshots'[k].totalLiabilities
               = SumOf(ListedBalances(snapshots'[k]),
                       1..Len(snapshots'[k].accounts))
     /\ Len(snapshots') >= Len(snapshots)
     /\ \A k \in 1..Len(snapshots) : snapshots'[k] = snapshots[k]
     /\ Len(snapshots') > Len(snapshots) =>
          LET new == snapshots'[Len(snapshots')]
              balances == [i \in 1..Len(accounts) |-> getCurrentBalance(accounts[i])]
              liabilities == {i \in 1..Len(accounts) : accounts[i].type = "liability"}
          IN /\ Len(snapshots') = Len(snapshots) + 1
             /\ accounts' = accounts
             /\ new.totalLiabilities = SumOf(balances, liabilities)
             /\ new.totalAssets
                  = SumOf(balances, (1..Len(accounts)) \ liabilities)
             /\ new.accounts = [i \in 1..Len(accounts) |->
                                  [id |-> accounts[i].id, balance |-> balances[i]]]]_vars

\* an earlier snapshot with a liability still shows the totals of its time
\* after the accounts have changed and a further snapshot was taken
C17_Witness ==
  /\ Len(snapshots) >= 2
  /\ snapshots[1].totalLiabilities > 0
  /\ snapshots[1].netWorth # calculateNetWorth(accounts).netWorth
  /\ snapshots[Len(snapshots)].netWorth = calculateNetWorth(accounts).netWorth

\* C18: no snapshot is recorded while the account list is empty: a step
\* taken with no accounts leaves the snapshot list as it is, a call of
\* createAndSaveSnapshot with no accounts returns at once and issues no
\* save, and every snapshot in memory, in flight or stored lists an account.
AllSnapshots ==
  {snapshots[k] : k \in 1..Len(snapshots)}
    \cup {localSnapshots[k] : k \in 1..Len(localSnapshots)}
    \cup dbSnapshots
    \cup {pending[i].snapshot :
            i \in {j \in 1..Len(pending) : pending[j].kind = "createAndSaveSnapshot"}}

C18_NoSnapshotWithoutAccounts ==
  [][/\ Len(accounts) = 0 => snapshots' = snapshots
     /\ (/\ Len(accounts) = 0
         /\ lastEvent'.kind = "createAndSaveSnapshot"
         /\ lastEvent'.outcome \in {"skip", "start"})
        => /\ lastEvent'.outcome = "skip"
           /\ pending' = pending
           /\ dbSnapshots' = dbSnapshots
           /\ localSnapshots' = localSnapshots
     /\ \A s \in AllSnapshots' : Len(s.accounts) > 0]_vars

\* the last account was deleted and the effect ran on the empty list: the
\* snapshot list still holds just the snapshot taken before
C18_Witness ==
  /\ lastEvent.kind = "snapshotEffect"
  /\ Len(accounts) = 0
  /\ Len(snapshots) = 1

C20_SnapshotSaveFailureSurfaced ==
  [][(/\ lastEvent'.kind = "createAndSaveSnapshot"
      /\ lastEvent'.outcome \in {"local", "fail"})
     => \/ lastEvent'.thrown
        \/ error' # Null]_vars

\* C22: historicalData holds at most one point per year and is in ascending
\* order of year after every step; an upsert of a year already in the list
\* puts the payload in that point's place and leaves every other point, and
\* the length, as they were.
C22_HistoricalDataOnePointPerYear ==
  [][/\ \A k, m \in 1..Len(historicalData') :
          k < m => historicalData'[k].year < historicalData'[m].year
     /\ (/\ lastEvent'.kind = "upsertHistoricalData"
         /\ lastEvent'.outcome = "ok"
         /\ \E k \in 1..Len(historicalData) :
              historicalData[k].year = lastEvent'.payload.year)
        => /\ Len(historicalData') = Len(historicalData)
           /\ \A k \in 1..Len(historicalData) :
                historicalData'[k] =
                  IF historicalData[k].year = lastEvent'.payload.year
                  THEN lastEvent'.payload
                  ELSE historicalData[k]]_vars

\* an upsert has just replaced the net_worth of one of two years
C22_Witness ==
  /\ lastEvent.kind = "upsertHistoricalData"
  /\ lastEvent.outcome = "ok"
  /\ lastEvent.found
  /\ Len(historicalData) = 2
  /\ lastEvent.payload.net_worth = 1000
  /\ \E k \in 1..2 : historicalData[k] = lastEvent.payload
  /\ \E k \in 1..2 : historicalData[k].net_worth = 5

\* C23: a metadata update that has settled leaves the balance history of
\* every account in memory, the updated one included, as it was.
C23_MetadataUpdateKeepsHistory ==
  [][(/\ lastEvent'.kind = "updateAccountMetadata"
      /\ lastEvent'.outcome = "ok")
     => /\ Len(accounts') = Len(accounts)
        /\ \A i \in 1..Len(accounts) :
             accounts'[i].balanceHistory = accounts[i].balanceHistory]_vars

\* C24: totalLiabilities of calculateNetWorth is the sum of the magnitudes
\* (absolute values) of the current balances of the liability accounts,
\* whatever the sign of the stored balances; stated of the aggregate that
\* the snapshot effect computed for the account list.
C24_LiabilitiesCountedByMagnitude ==
  lastEvent.kind = "snapshotEffect" =>
    LET magnitudes == [i \in 1..Len(accounts) |-> Abs(getCurrentBalance(accounts[i]))]
        liabilities == {i \in 1..Len(accounts) : accounts[i].type = "liability"}
    IN calculateNetWorth(accounts).totalLiabilities = SumOf(magnitudes, liabilities)

\* C26: after every addBalanceEntry that succeeds, the balance history of
\* the account in memory is the history persisted in its row: the same
\* entries in the same order.
C26_MemoryHistoryEqualsPersisted ==
  [][\A i \in 1..Len(pending) :
       (/\ pending[i].kind = "addBalanceEntry"
        /\ pending[i].pc = "update"
        /\ lastEvent'.kind = "addBalanceEntry"
        /\ lastEvent'.outcome = "ok"
        /\ pending' = Remove(pending, i)
        /\ DbHasAccount(pending[i].accountId))
       => \A k \in 1..Len(accounts') :
            accounts'[k].id = pending[i].accountId
              => accounts'[k].balanceHistory
                   = HistoryIn(dbAccounts', pending[i].accountId)]_vars

\* C27: the persisted snapshots, the rows of the remote table and the
\* items of the local fallback store, hold at most one snapshot per
\* calendar day.
PersistedSnapshots ==
  dbSnapshots \cup {localSnapshots[k] : k \in 1..Len(localSnapshots)}

C27_OnePersistedSnapshotPerDay ==
  \A s, t \in PersistedSnapshots :
    DateOnly(s.date) = DateOnly(t.date) => s.id = t.id

\* C28: for 1M, 3M, 6M and 1Y no point of the output series is dated
\* before the calendar day of the window start, the anchor dates of the
\* weekly, bi-weekly and monthly buckets included.
C28_OutputDatesInsideWindow ==
  timeFrame \in {"1M", "3M", "6M", "1Y"} =>
    \A p \in 1..Len(chart) :
      DayOf(ParseYmd(chart[p].date))
        >= DayOf(StartDate(snapshots, historicalData, timeFrame, now))

\* C30: state.loading is true after every step that leaves an operation
\* which raised it still pending, and false after the step that completes
\* the last of them.
RaisesLoading ==
  {"fetchAllUserData", "addBalanceEntry", "upsertHistoricalData",
   "deleteHistoricalData", "setUserGoal", "deleteUserGoal"}

LoadingOperationPending(queue) ==
  \E i \in 1..Len(queue) : queue[i].kind \in RaisesLoading

C30_LoadingWhileOperationPending ==
  [][/\ LoadingOperationPending(pending') => loading'
     /\ (LoadingOperationPending(pending) /\ ~LoadingOperationPending(pending'))
          => ~loading']_vars

\* C21: once the user is null and fetchAllUserData has reset the state, no
\* step taken while the user stays null, the late completion of an
\* operation or data fetch started before included, modifies accounts,
\* historicalData, snapshots or userGoal.
C21_SupersededResultIgnored ==
  [][(user = Null /\ user' = Null)
     => /\ accounts' = accounts
        /\ historicalData' = historicalData
        /\ snapshots' = snapshots
        /\ userGoal' = userGoal]_vars

\* C29: when the accounts query, the historical-data query or the goal
\* query of a fetchAllUserData run has failed, state.error is not null
\* after the step that finishes the run (the finally that sets loading to
\* false), whatever the snapshot fetch of the run did.
C29_FailedLoadLeavesError ==
  [][\A i \in 1..Len(pending) :
       (/\ pending[i].kind = "fetchAllUserData"
        /\ pending[i].pc = "goal"
        /\ lastEvent' = Event("fetchAllUserData", "finished")
        /\ \/ pending[i].accountsFailed
           \/ pending[i].historicalFailed
           \/ pending[i].goalResponse.error)
       => error' # Null]_vars

====
